---- MODULE Spec2Model ----
(***************************************************************************)
(* A model of orthant's VectorIngestPipeline                               *)
(* (packages/orthant-embedding/src/orthant/embedding/                      *)
(* vector_ingest_pipeline.py): three bounded asyncio queues, three kinds   *)
(* of long-lived worker tasks, start_async / stop_async /                  *)
(* ingest_batch_async.                                                     *)
(*                                                                         *)
(* One action is one run of a coroutine between two suspension points of   *)
(* the asyncio event loop.  A put on a queue that is not full and a get    *)
(* that is followed by the start of a collaborator call do not suspend in  *)
(* between, so they are part of the same action.                           *)
(*                                                                         *)
(* Next to it: the synchronous DocumentIngestionPipeline of orthant-core   *)
(* (ingestion/pipeline.py), one action per collaborator call, and the      *)
(* InMemoryDatasetRegistry of orthant-datasets (dataset_registry.py).      *)
(***************************************************************************)
EXTENDS Naturals, Sequences, FiniteSets

\* ------------------------------------------------------------------ bounds

\* Documents the caller may submit over a run (document ids 1..NDocs).
NDocs == 2
\* Nodes of every submitted document (the test chunker yields one chunk a node).
NodesPerDoc == 2
\* Longest input sequence of one ingest_batch_async call.
MaxBatch == 2
\* Largest chunker_workers / embedding_workers / pool size the constructor is given.
MaxChunkerWorkers == 2
MaxEmbeddingWorkers == 2
MaxPoolWorkers == 2
\* Successful start_async calls in a run.
MaxStarts == 2
\* Collaborator calls that raise in a run.
MaxFailures == 2
\* Queue capacities handed to the constructor (q_chunking, q_embeddings, q_storage).
maxsize_chunking == 1
maxsize_embeddings == 1
maxsize_storage == 1
\* Files the reader can read (URIs 1..NFiles; file u has u - 1 nodes).
NFiles == 4
\* Longest list of URIs handed to ingest_batch.
MaxUris == 3
\* Dataset ids and storage formats of the specs handed to the registry.
NDatasets == 2
NFormats == 2
\* insert calls on the registry in a run.
MaxInserts == 4
\* stop_async calls suspended in gather at the same time.
MaxStopCalls == 2

\* ---------------------------------------------------------------- documents

Min(a, b) == IF a < b THEN a ELSE b

\* The text of node j of document d: a string, as the sequence of its characters;
\* every node of a run has a text of its own length.
NodeContent(d, j) == [i \in 1..((d - 1) * NodesPerDoc + j) |-> "w"]

OrthantDocumentNode(d, j) == [node_path |-> j, content |-> NodeContent(d, j)]

OrthantDocument(d) ==
    [type |-> "OrthantDocument", document_id |-> d,
     nodes |-> [j \in 1..NodesPerDoc |-> OrthantDocumentNode(d, j)]]

\* A value that is not an OrthantDocument.
NotADocument == [type |-> "other", document_id |-> 0, nodes |-> <<>>]

DocIds == 1..NDocs

\* isinstance(doc, OrthantDocument)
IsOrthantDocument(x) == x.type = "OrthantDocument"

\* SimpleChunker.chunk_document: one chunk per node, node_chunk_index 0.
chunk_document(doc) ==
    [j \in 1..Len(doc.nodes) |->
        [document_id |-> doc.document_id,
         node_path |-> doc.nodes[j].node_path,
         node_chunk_index |-> 0,
         content |-> doc.nodes[j].content]]

\* SimpleEmbedder.encode_document_async: [float(len(content))].
encode_document_async(chunk) == <<Len(chunk.content)>>

\* VectorDocumentNodeChunk(document_id=..., ..., vector=document_embedding)
VectorDocumentNodeChunk(chunk, document_embedding) ==
    [document_id |-> chunk.document_id,
     node_path |-> chunk.node_path,
     node_chunk_index |-> chunk.node_chunk_index,
     content |-> chunk.content,
     vector |-> document_embedding]

AllChunks == UNION {{chunk_document(OrthantDocument(d))[j] : j \in 1..NodesPerDoc} : d \in DocIds}

\* ------------------------------------------------------------------- state

VARIABLES
    chunker_workers,    \* self._chunker_workers
    embedding_workers,  \* self._embedding_workers
    pool_workers,       \* max_workers of the process pool
    q_storage_maxsize,  \* self._q_storage.maxsize: the q_storage argument
    q_chunker,          \* self._q_chunker: the documents waiting
    q_embeddings,       \* self._q_embeddings: the chunks waiting
    q_storage,          \* self._q_storage: the vector chunks waiting
    unfinished_tasks,   \* the queues' counts of items put and not yet task_done
    stop_event,         \* self._stop_event.is_set()
    worker_tasks,       \* self._worker_tasks: the ids of the tracked tasks
    task,               \* every asyncio.Task created so far, by id
    pool_queue,         \* ids of the chunker tasks with a call in the process pool
    stop_calls,         \* the stop_async calls suspended in gather: their task lists
    ingest,             \* the caller of ingest_batch_async
    next_doc,           \* the id of the next document the caller builds
    start_result,       \* outcome of the latest start_async call
    stop_result,        \* outcome of the latest stop_async call
    accepted,           \* documents put on q_chunker, in order
    chunk_calls,        \* document ids handed to chunk_document, in order
    chunk_raised,       \* document ids whose chunk_document call raised
    embed_calls,        \* chunks handed to encode_document_async, with their number of calls
    embed_raised,       \* chunks whose encode_document_async call raised
    store_calls,        \* vector chunks handed to store_vector_document_async, in order
    store_raised,       \* vector chunks whose store call raised
    stored,             \* vector chunks whose store call returned, in order
    core,               \* a DocumentIngestionPipeline, its collaborators and its caller
    registry            \* an InMemoryDatasetRegistry and its caller

config == <<chunker_workers, embedding_workers, pool_workers, q_storage_maxsize>>
queues == <<q_chunker, q_embeddings, q_storage, unfinished_tasks>>
lifecycle == <<stop_event, worker_tasks, stop_calls, start_result, stop_result>>
caller == <<ingest, next_doc, accepted>>
chunk_hist == <<chunk_calls, chunk_raised>>
embed_hist == <<embed_calls, embed_raised>>
store_hist == <<store_calls, store_raised, stored>>
\* The components next to the VectorIngestPipeline.
elsewhere == <<core, registry>>
\* The VectorIngestPipeline, its tasks, its collaborators and its caller.
vector_pipeline == <<config, queues, lifecycle, task, pool_queue, caller,
                     chunk_hist, embed_hist, store_hist>>
vars == <<vector_pipeline, elsewhere>>

\* A task that has ended: returned ("done"), ended by CancelledError ("cancelled")
\* or by another exception that left the coroutine ("failed").
Terminal(t) == t.pc \in {"done", "cancelled", "failed"}

\* A fresh task of a worker coroutine: not yet at its first await.
NewTask(kind) ==
    [kind |-> kind, pc |-> "loop", item |-> <<>>, pending |-> <<>>, must_cancel |-> FALSE]

\* DocumentIngestionPipeline.__init__ and its caller before the first call: no
\* collaborator called, nothing in the vector store.
NewDocumentIngestionPipeline ==
    [pc |-> "idle", entry |-> "none", file_uris |-> <<>>, k |-> 1,
     document |-> NotADocument, chunks |-> <<>>, embeddings |-> <<>>,
     embedded_chunks |-> <<>>, all_chunks |-> <<>>, now |-> 0,
     calls |-> <<>>, read_args |-> <<>>, chunk_args |-> <<>>,
     encode_args |-> <<>>, store_args |-> <<>>,
     result |-> "none", value |-> <<>>]

\* InMemoryDatasetRegistry.__init__: self._datasets = {}; the caller has inserted
\* nothing.
NewInMemoryDatasetRegistry ==
    [datasets |-> <<>>, inserted |-> <<>>, result |-> "none"]

\* Init for a constructor that starts the storage worker itself.
Init_Eager ==
    /\ chunker_workers \in 1..MaxChunkerWorkers
    /\ embedding_workers \in 1..MaxEmbeddingWorkers
    /\ pool_workers \in 1..MaxPoolWorkers
    /\ q_storage_maxsize = maxsize_storage
    /\ q_chunker = <<>>
    /\ q_embeddings = <<>>
    /\ q_storage = <<>>
    /\ unfinished_tasks = [chunker |-> 0, embeddings |-> 0, storage |-> 0]
    /\ stop_event = FALSE
    /\ worker_tasks = <<1>>
    /\ task = <<NewTask("storage")>>
    /\ pool_queue = <<>>
    /\ stop_calls = <<>>
    /\ ingest = [pc |-> "idle", batch |-> <<>>, i |-> 1, result |-> "none"]
    /\ next_doc = 1
    /\ start_result = "none"
    /\ stop_result = "none"
    /\ accepted = <<>>
    /\ chunk_calls = <<>>
    /\ chunk_raised = {}
    /\ embed_calls = [c \in AllChunks |-> 0]
    /\ embed_raised = {}
    /\ store_calls = <<>>
    /\ store_raised = {}
    /\ stored = <<>>
    /\ core = NewDocumentIngestionPipeline
    /\ registry = NewInMemoryDatasetRegistry

\* __init__ called with q_storage=capacity: empty queues, no task, the stop event
\* clear.
Construct(capacity) ==
    /\ chunker_workers \in 1..MaxChunkerWorkers
    /\ embedding_workers \in 1..MaxEmbeddingWorkers
    /\ pool_workers \in 1..MaxPoolWorkers
    /\ q_storage_maxsize = capacity
    /\ q_chunker = <<>>
    /\ q_embeddings = <<>>
    /\ q_storage = <<>>
    /\ unfinished_tasks = [chunker |-> 0, embeddings |-> 0, storage |-> 0]
    /\ stop_event = FALSE
    /\ worker_tasks = <<>>
    /\ task = <<>>
    /\ pool_queue = <<>>
    /\ stop_calls = <<>>
    /\ ingest = [pc |-> "idle", batch |-> <<>>, i |-> 1, result |-> "none"]
    /\ next_doc = 1
    /\ start_result = "none"
    /\ stop_result = "none"
    /\ accepted = <<>>
    /\ chunk_calls = <<>>
    /\ chunk_raised = {}
    /\ embed_calls = [c \in AllChunks |-> 0]
    /\ embed_raised = {}
    /\ store_calls = <<>>
    /\ store_raised = {}
    /\ stored = <<>>
    /\ core = NewDocumentIngestionPipeline
    /\ registry = NewInMemoryDatasetRegistry

\* The pipeline built with the storage queue capacity of the run.
Init == Construct(maxsize_storage)

\* ---------------------------------------------------------------- lifecycle

Range(s) == {s[k] : k \in DOMAIN s}

RemoveAt(s, k) == SubSeq(s, 1, k - 1) \o SubSeq(s, k + 1, Len(s))

Without(s, x) == SelectSeq(s, LAMBDA y : y # x)

WorkersPerStart == chunker_workers + embedding_workers + 1

\* SpawnedTasks without the task of the storage worker.
SpawnedTasks_NoStorage ==
    [k \in 1..(chunker_workers + embedding_workers) |->
        IF k <= chunker_workers THEN NewTask("chunker") ELSE NewTask("embedding")]

\* SpawnedTasks with a pool of storage workers, one for each embedding worker.
SpawnedTasks_StoragePool ==
    [k \in 1..(chunker_workers + 2 * embedding_workers) |->
        IF k <= chunker_workers THEN NewTask("chunker")
        ELSE IF k <= chunker_workers + embedding_workers THEN NewTask("embedding")
        ELSE NewTask("storage")]

\* The tasks start_async creates, in the order it appends them.
SpawnedTasks ==
    [k \in 1..WorkersPerStart |->
        IF k <= chunker_workers THEN NewTask("chunker")
        ELSE IF k <= chunker_workers + embedding_workers THEN NewTask("embedding")
        ELSE NewTask("storage")]

\* StartAlready without the check of the list: the workers are created once more.
StartAlready_Respawn ==
    /\ worker_tasks # <<>>
    /\ Len(task) + WorkersPerStart <= MaxStarts * WorkersPerStart
    /\ task' = task \o SpawnedTasks
    /\ worker_tasks' = worker_tasks \o [k \in 1..Len(SpawnedTasks) |-> Len(task) + k]
    /\ start_result' = "started"
    /\ UNCHANGED <<config, elsewhere, queues, stop_event, stop_calls, stop_result,
                   pool_queue, caller, chunk_hist, embed_hist, store_hist>>

\* start_async with tasks tracked: raise RuntimeError("Worker tasks already started.")
StartAlready ==
    /\ worker_tasks # <<>>
    /\ start_result' = "AlreadyStarted"
    /\ UNCHANGED <<config, elsewhere, queues, stop_event, worker_tasks, stop_calls, stop_result,
                   task, pool_queue, caller, chunk_hist, embed_hist, store_hist>>

\* StartSpawn for a pipeline that can be started once only: a start_async after the
\* first workers were created raises, also when they are no longer tracked.
StartSpawn_Once ==
    /\ worker_tasks = <<>>
    /\ Len(task) + WorkersPerStart <= MaxStarts * WorkersPerStart
    /\ IF task = <<>>
       THEN /\ task' = task \o SpawnedTasks
            /\ worker_tasks' = [k \in 1..Len(SpawnedTasks) |-> Len(task) + k]
            /\ start_result' = "started"
       ELSE /\ start_result' = "AlreadyStarted"
            /\ UNCHANGED <<task, worker_tasks>>
    /\ UNCHANGED <<config, elsewhere, queues, stop_event, stop_calls, stop_result,
                   pool_queue, caller, chunk_hist, embed_hist, store_hist>>

\* StartSpawn for a start_async that warms the pool up: it has the chunking strategy
\* run once, on no document of the caller (document id 0).
StartSpawn_Warmup ==
    /\ worker_tasks = <<>>
    /\ Len(task) + WorkersPerStart <= MaxStarts * WorkersPerStart
    /\ task' = task \o SpawnedTasks
    /\ worker_tasks' = [k \in 1..Len(SpawnedTasks) |-> Len(task) + k]
    /\ start_result' = "started"
    /\ chunk_calls' = Append(chunk_calls, 0)
    /\ UNCHANGED <<config, elsewhere, queues, stop_event, stop_calls, stop_result,
                   pool_queue, caller, chunk_raised, embed_hist, store_hist>>

\* start_async with no task tracked: create and track the worker tasks.
StartSpawn ==
    /\ worker_tasks = <<>>
    /\ Len(task) + WorkersPerStart <= MaxStarts * WorkersPerStart
    /\ task' = task \o SpawnedTasks
    /\ worker_tasks' = [k \in 1..Len(SpawnedTasks) |-> Len(task) + k]
    /\ start_result' = "started"
    /\ UNCHANGED <<config, elsewhere, queues, stop_event, stop_calls, stop_result,
                   pool_queue, caller, chunk_hist, embed_hist, store_hist>>

start_async == StartAlready \/ StartSpawn

\* task.cancel(): a request, delivered when the task next runs; nothing on an ended task.
Cancel(t) == IF Terminal(t) THEN t ELSE [t EXCEPT !.must_cancel = TRUE]

\* StopBegin without the task.cancel() calls: the workers are left to see the event.
StopBegin_NoCancel ==
    /\ stop_event' = TRUE
    /\ IF worker_tasks = <<>>
       THEN /\ worker_tasks' = <<>>
            /\ stop_result' = "returned"
            /\ UNCHANGED stop_calls
       ELSE /\ stop_calls' = Append(stop_calls, worker_tasks)
            /\ stop_result' = "awaiting"
            /\ UNCHANGED worker_tasks
    /\ UNCHANGED <<config, elsewhere, queues, start_result, task, pool_queue, caller,
                   chunk_hist, embed_hist, store_hist>>

\* stop_async up to its await: set the event, cancel every tracked task, and gather.
\* gather() of no task is already done, so then the call runs to its end.
StopBegin ==
    /\ stop_event' = TRUE
    /\ task' = [id \in DOMAIN task |->
                   IF id \in Range(worker_tasks) THEN Cancel(task[id]) ELSE task[id]]
    /\ IF worker_tasks = <<>>
       THEN /\ worker_tasks' = <<>>
            /\ stop_result' = "returned"
            /\ UNCHANGED stop_calls
       ELSE /\ stop_calls' = Append(stop_calls, worker_tasks)
            /\ stop_result' = "awaiting"
            /\ UNCHANGED worker_tasks
    /\ UNCHANGED <<config, elsewhere, queues, start_result, pool_queue, caller,
                   chunk_hist, embed_hist, store_hist>>

\* StopEnd without self._worker_tasks.clear().
StopEnd_KeepList(k) ==
    /\ k \in DOMAIN stop_calls
    /\ \A id \in Range(stop_calls[k]) : Terminal(task[id])
    /\ stop_calls' = RemoveAt(stop_calls, k)
    /\ stop_result' = "returned"
    /\ UNCHANGED <<config, elsewhere, queues, stop_event, worker_tasks, start_result, task, pool_queue,
                   caller, chunk_hist, embed_hist, store_hist>>

\* StopEnd without the await of gather: the list is cleared while tasks still run.
StopEnd_NoGather(k) ==
    /\ k \in DOMAIN stop_calls
    /\ worker_tasks' = <<>>
    /\ stop_calls' = RemoveAt(stop_calls, k)
    /\ stop_result' = "returned"
    /\ UNCHANGED <<config, elsewhere, queues, stop_event, start_result, task, pool_queue, caller,
                   chunk_hist, embed_hist, store_hist>>

\* StopEnd with gather(..., return_exceptions=False): the exception or the
\* cancellation a gathered task ended with is raised to the caller of stop_async,
\* before the list is cleared.
StopEnd_Propagates(k) ==
    /\ k \in DOMAIN stop_calls
    /\ \A id \in Range(stop_calls[k]) : Terminal(task[id])
    /\ stop_calls' = RemoveAt(stop_calls, k)
    /\ IF \E id \in Range(stop_calls[k]) : task[id].pc # "done"
       THEN stop_result' = "raised" /\ UNCHANGED worker_tasks
       ELSE stop_result' = "returned" /\ worker_tasks' = <<>>
    /\ UNCHANGED <<config, elsewhere, queues, stop_event, start_result, task, pool_queue, caller,
                   chunk_hist, embed_hist, store_hist>>

\* StopEnd for a stop_async that empties the queues once the workers have ended.
StopEnd_Drain(k) ==
    /\ k \in DOMAIN stop_calls
    /\ \A id \in Range(stop_calls[k]) : Terminal(task[id])
    /\ worker_tasks' = <<>>
    /\ stop_calls' = RemoveAt(stop_calls, k)
    /\ stop_result' = "returned"
    /\ q_chunker' = <<>>
    /\ q_embeddings' = <<>>
    /\ q_storage' = <<>>
    /\ unfinished_tasks' = [chunker |-> 0, embeddings |-> 0, storage |-> 0]
    /\ UNCHANGED <<config, elsewhere, stop_event, start_result, task, pool_queue, caller,
                   chunk_hist, embed_hist, store_hist>>

\* stop_async after gather: every gathered task has ended; clear the list.
StopEnd(k) ==
    /\ k \in DOMAIN stop_calls
    /\ \A id \in Range(stop_calls[k]) : Terminal(task[id])
    /\ worker_tasks' = <<>>
    /\ stop_calls' = RemoveAt(stop_calls, k)
    /\ stop_result' = "returned"
    /\ UNCHANGED <<config, elsewhere, queues, stop_event, start_result, task, pool_queue, caller,
                   chunk_hist, embed_hist, store_hist>>

\* ------------------------------------------------------------- ingest_batch

\* ingest_loop with put_nowait and the QueueFull error swallowed: a document that
\* finds the queue full is skipped.
RECURSIVE ingest_loop_skip(_, _, _)
ingest_loop_skip(q, batch, i) ==
    IF i > Len(batch) THEN [q |-> q, i |-> i, outcome |-> "returned"]
    ELSE IF ~IsOrthantDocument(batch[i]) THEN [q |-> q, i |-> i, outcome |-> "InvalidInput"]
    ELSE IF Len(q) >= maxsize_chunking THEN ingest_loop_skip(q, batch, i + 1)
    ELSE ingest_loop_skip(Append(q, batch[i]), batch, i + 1)

\* ingest_loop without the isinstance check: every value of the input is put.
RECURSIVE ingest_loop_unchecked(_, _, _)
ingest_loop_unchecked(q, batch, i) ==
    IF i > Len(batch) THEN [q |-> q, i |-> i, outcome |-> "returned"]
    ELSE IF Len(q) >= maxsize_chunking THEN [q |-> q, i |-> i, outcome |-> "suspended"]
    ELSE ingest_loop_unchecked(Append(q, batch[i]), batch, i + 1)

\* ingest_loop that checks the whole input before its first put: an input with a
\* value that is no document is refused with nothing put.
ingest_loop_atomic(q, batch, i) ==
    LET bad == {k \in i..Len(batch) : ~IsOrthantDocument(batch[k])} IN
    IF bad # {}
    THEN [q |-> q, i |-> CHOOSE k \in bad : \A m \in bad : k <= m, outcome |-> "InvalidInput"]
    ELSE ingest_loop_unchecked(q, batch, i)

\* ingest_loop over reversed(documents): the last document of the input first.
RECURSIVE ingest_loop_reversed(_, _, _)
ingest_loop_reversed(q, batch, i) ==
    LET doc == batch[Len(batch) + 1 - i] IN
    IF i > Len(batch) THEN [q |-> q, i |-> i, outcome |-> "returned"]
    ELSE IF ~IsOrthantDocument(doc) THEN [q |-> q, i |-> i, outcome |-> "InvalidInput"]
    ELSE IF Len(q) >= maxsize_chunking THEN [q |-> q, i |-> i, outcome |-> "suspended"]
    ELSE ingest_loop_reversed(Append(q, doc), batch, i + 1)

\* The for loop of ingest_batch_async from position i on, up to its next
\* suspension (a put on a full queue), its raise or its return.
RECURSIVE ingest_loop(_, _, _)
ingest_loop(q, batch, i) ==
    IF i > Len(batch) THEN [q |-> q, i |-> i, outcome |-> "returned"]
    ELSE IF ~IsOrthantDocument(batch[i]) THEN [q |-> q, i |-> i, outcome |-> "InvalidInput"]
    ELSE IF Len(q) >= maxsize_chunking THEN [q |-> q, i |-> i, outcome |-> "suspended"]
    ELSE ingest_loop(Append(q, batch[i]), batch, i + 1)

\* RunIngest with put_nowait: a full queue raises QueueFull to the caller.
RunIngest_RaiseWhenFull(batch, i) ==
    LET r == ingest_loop(q_chunker, batch, i) IN
    /\ q_chunker' = r.q
    /\ unfinished_tasks' =
          [unfinished_tasks EXCEPT !.chunker = @ + (Len(r.q) - Len(q_chunker))]
    /\ accepted' = accepted \o SubSeq(r.q, Len(q_chunker) + 1, Len(r.q))
    /\ ingest' = [pc |-> "idle", batch |-> batch, i |-> r.i,
                  result |-> IF r.outcome = "suspended" THEN "QueueFull" ELSE r.outcome]

RunIngest(batch, i) ==
    LET r == ingest_loop(q_chunker, batch, i) IN
    /\ q_chunker' = r.q
    /\ unfinished_tasks' =
          [unfinished_tasks EXCEPT !.chunker = @ + (Len(r.q) - Len(q_chunker))]
    /\ accepted' = accepted \o SubSeq(r.q, Len(q_chunker) + 1, Len(r.q))
    /\ ingest' = [pc |-> IF r.outcome = "suspended" THEN "put" ELSE "idle",
                  batch |-> batch, i |-> r.i, result |-> r.outcome]

\* The input sequences of length n the caller can build next: position k holds a
\* new document or a value that is no document.
BatchOf(shape) ==
    [k \in DOMAIN shape |->
        IF shape[k]
        THEN OrthantDocument(next_doc + Cardinality({m \in 1..(k - 1) : shape[m]}))
        ELSE NotADocument]

Valid(shape) == Cardinality({m \in DOMAIN shape : shape[m]})

\* IngestCall without the check that workers are started.
IngestCall_NoGuard(batch) ==
    /\ ingest.pc = "idle"
    /\ RunIngest(batch, 1)
    /\ UNCHANGED <<q_embeddings, q_storage>>
    /\ UNCHANGED <<config, elsewhere, lifecycle, task, pool_queue, chunk_hist, embed_hist, store_hist>>

\* A call of ingest_batch_async on `batch`, up to its first suspension.
IngestCall(batch) ==
    /\ ingest.pc = "idle"
    /\ IF worker_tasks = <<>>
       THEN /\ ingest' = [pc |-> "idle", batch |-> batch, i |-> 1, result |-> "NotStarted"]
            /\ UNCHANGED <<queues, accepted>>
       ELSE /\ RunIngest(batch, 1)
            /\ UNCHANGED <<q_embeddings, q_storage>>
    /\ UNCHANGED <<config, elsewhere, lifecycle, task, pool_queue, chunk_hist, embed_hist, store_hist>>

\* The caller builds its next documents and calls ingest_batch_async.
IngestBegin(shape) ==
    /\ next_doc + Valid(shape) - 1 <= NDocs
    /\ next_doc' = next_doc + Valid(shape)
    /\ IngestCall(BatchOf(shape))

\* The caller of a started pipeline calls ingest_batch_async on its first document,
\* time and again.
IngestAgain ==
    /\ worker_tasks # <<>>
    /\ IngestCall(<<OrthantDocument(1)>>)
    /\ UNCHANGED next_doc

\* The suspended put is woken by a free slot and the loop goes on.
IngestResume ==
    /\ ingest.pc = "put"
    /\ Len(q_chunker) < maxsize_chunking
    /\ RunIngest(ingest.batch, ingest.i)
    /\ UNCHANGED <<q_embeddings, q_storage, next_doc>>
    /\ UNCHANGED <<config, elsewhere, lifecycle, task, pool_queue, chunk_hist, embed_hist, store_hist>>

Shapes == UNION {[1..n -> BOOLEAN] : n \in 0..MaxBatch}


\* ------------------------------------------------------------------ workers

\* At for an embedding client whose call does not suspend: while an embedding
\* worker is in the call, the event loop runs no other task.
At_BlockingEmbed(w, kind, pc) ==
    /\ w \in DOMAIN task
    /\ task[w].kind = kind
    /\ task[w].pc = pc
    /\ ~task[w].must_cancel
    /\ \A v \in DOMAIN task \ {w} : ~(task[v].kind = "embedding" /\ task[v].pc = "call")

\* Task w runs coroutine `kind`, is suspended at `pc`, and no cancellation is pending.
At(w, kind, pc) ==
    /\ w \in DOMAIN task
    /\ task[w].kind = kind
    /\ task[w].pc = pc
    /\ ~task[w].must_cancel

\* `while not self._stop_event.is_set()`: where the coroutine goes after an item.
LoopHead == IF stop_event THEN "done" ELSE "loop"

\* The task is back at the head of its loop, holding nothing.
Looping(t) == [t EXCEPT !.pc = LoopHead, !.item = <<>>, !.pending = <<>>]

\* queue.task_done()
TaskDone(u, queue) == [u EXCEPT ![queue] = @ - 1]

\* Task w is ready to run and will find the event set or a cancellation pending.
\* Only a task that has not run yet, or one stop_async has just cancelled, is so.
Ending(w) ==
    /\ w \in DOMAIN task
    /\ ~Terminal(task[w])
    /\ task[w].must_cancel \/ (task[w].pc = "loop" /\ stop_event)

\* The event loop runs its ready callbacks in the order they were scheduled
\* (call_soon): the first steps of new tasks in the order start_async created them,
\* the wake-ups of cancelled tasks in the order stop_async cancelled them.
FirstReady(w) == \A v \in 1..(w - 1) : ~Ending(v)

\* The loop condition is false (the event is set): the coroutine returns.
WorkerExit(w) ==
    /\ w \in DOMAIN task
    /\ task[w].pc = "loop"
    /\ ~task[w].must_cancel
    /\ stop_event
    /\ FirstReady(w)
    /\ task' = [task EXCEPT ![w] = [@ EXCEPT !.pc = "done"]]
    /\ UNCHANGED <<config, elsewhere, queues, lifecycle, pool_queue, caller,
                   chunk_hist, embed_hist, store_hist>>

\* WorkerCancelled for workers whose task_done follows the try statement instead
\* of being its finally clause: a cancellation leaves the item not done.
WorkerCancelled_NoTaskDone(w) ==
    /\ w \in DOMAIN task
    /\ task[w].must_cancel
    /\ ~Terminal(task[w])
    /\ FirstReady(w)
    /\ task' = [task EXCEPT ![w] = [@ EXCEPT !.pc = "cancelled", !.item = <<>>,
                                              !.pending = <<>>, !.must_cancel = FALSE]]
    /\ pool_queue' = Without(pool_queue, w)
    /\ UNCHANGED <<config, elsewhere, queues, lifecycle, caller,
                   chunk_hist, embed_hist, store_hist>>

\* WorkerCancelled for workers that give the item they hold back to the queue
\* they took it from.
WorkerCancelled_Requeue(w) ==
    /\ w \in DOMAIN task
    /\ task[w].must_cancel
    /\ ~Terminal(task[w])
    /\ FirstReady(w)
    /\ task' = [task EXCEPT ![w] = [@ EXCEPT !.pc = "cancelled", !.item = <<>>,
                                              !.pending = <<>>, !.must_cancel = FALSE]]
    /\ pool_queue' = Without(pool_queue, w)
    /\ q_chunker' = IF task[w].kind = "chunker" THEN q_chunker \o task[w].item
                    ELSE q_chunker
    /\ q_embeddings' = IF task[w].kind = "embedding" THEN q_embeddings \o task[w].item
                       ELSE q_embeddings
    /\ q_storage' = IF task[w].kind = "storage" THEN q_storage \o task[w].item
                    ELSE q_storage
    /\ UNCHANGED <<config, elsewhere, unfinished_tasks, lifecycle, caller,
                   chunk_hist, embed_hist, store_hist>>

\* CancelledError is thrown into the task at the await it is suspended in; it is
\* no Exception, so only the finally clause (task_done for a held item) runs.
WorkerCancelled(w) ==
    /\ w \in DOMAIN task
    /\ task[w].must_cancel
    /\ ~Terminal(task[w])
    /\ FirstReady(w)
    /\ task' = [task EXCEPT ![w] = [@ EXCEPT !.pc = "cancelled", !.item = <<>>,
                                              !.pending = <<>>, !.must_cancel = FALSE]]
    /\ unfinished_tasks' =
          IF task[w].item = <<>> THEN unfinished_tasks
          ELSE IF task[w].kind = "chunker" THEN TaskDone(unfinished_tasks, "chunker")
          ELSE IF task[w].kind = "embedding" THEN TaskDone(unfinished_tasks, "embeddings")
          ELSE TaskDone(unfinished_tasks, "storage")
    /\ pool_queue' = Without(pool_queue, w)
    /\ UNCHANGED <<config, elsewhere, q_chunker, q_embeddings, q_storage, lifecycle, caller,
                   chunk_hist, embed_hist, store_hist>>

\* _chunker_worker: get a document and hand it to the pool (run_in_executor).
ChunkerGet(w) ==
    /\ At(w, "chunker", "loop")
    /\ ~stop_event
    /\ q_chunker # <<>>
    /\ q_chunker' = Tail(q_chunker)
    /\ task' = [task EXCEPT ![w] = [@ EXCEPT !.pc = "call", !.item = <<Head(q_chunker)>>]]
    /\ pool_queue' = Append(pool_queue, w)
    /\ chunk_calls' = Append(chunk_calls, Head(q_chunker).document_id)
    /\ UNCHANGED <<config, elsewhere, q_embeddings, q_storage, unfinished_tasks, lifecycle, caller,
                   chunk_raised, embed_hist, store_hist>>

\* The pool runs the first pool_workers calls handed to it.
InPool(w) == \E k \in 1..Min(pool_workers, Len(pool_queue)) : pool_queue[k] = w

\* PutChunks with put_nowait on a queue that takes every chunk.
PutChunks_NoWait(w, chunks) ==
    /\ q_embeddings' = q_embeddings \o chunks
    /\ task' = [task EXCEPT ![w] = Looping(@)]
    /\ unfinished_tasks' =
          TaskDone([unfinished_tasks EXCEPT !.embeddings = @ + Len(chunks)], "chunker")

\* PutChunks iterating over the chunks from the last to the first.
PutChunks_Reversed(w, chunks) ==
    LET n == Min(Len(chunks), maxsize_embeddings - Len(q_embeddings))
        back == [i \in DOMAIN chunks |-> chunks[Len(chunks) + 1 - i]]
        rest == SubSeq(back, n + 1, Len(back))
    IN  /\ q_embeddings' = q_embeddings \o SubSeq(back, 1, n)
        /\ IF rest = <<>>
           THEN /\ task' = [task EXCEPT ![w] = Looping(@)]
                /\ unfinished_tasks' =
                      TaskDone([unfinished_tasks EXCEPT !.embeddings = @ + n], "chunker")
           ELSE /\ task' = [task EXCEPT ![w] = [@ EXCEPT !.pc = "put", !.pending = rest]]
                /\ unfinished_tasks' = [unfinished_tasks EXCEPT !.embeddings = @ + n]

\* `for chunk in chunks: await self._q_embeddings.put(chunk)` up to the first put
\* that finds the queue full; after the last chunk, task_done and the loop head.
PutChunks(w, chunks) ==
    LET n == Min(Len(chunks), maxsize_embeddings - Len(q_embeddings))
        rest == SubSeq(chunks, n + 1, Len(chunks))
    IN  /\ q_embeddings' = q_embeddings \o SubSeq(chunks, 1, n)
        /\ IF rest = <<>>
           THEN /\ task' = [task EXCEPT ![w] = Looping(@)]
                /\ unfinished_tasks' =
                      TaskDone([unfinished_tasks EXCEPT !.embeddings = @ + n], "chunker")
           ELSE /\ task' = [task EXCEPT ![w] = [@ EXCEPT !.pc = "put", !.pending = rest]]
                /\ unfinished_tasks' = [unfinished_tasks EXCEPT !.embeddings = @ + n]

\* The pool call returns the chunks of the document.
ChunkReturn(w) ==
    /\ At(w, "chunker", "call")
    /\ InPool(w)
    /\ pool_queue' = Without(pool_queue, w)
    /\ PutChunks(w, chunk_document(task[w].item[1]))
    /\ UNCHANGED <<config, elsewhere, q_chunker, q_storage, lifecycle, caller,
                   chunk_hist, embed_hist, store_hist>>

\* ChunkRaise with a retry: the document goes back on the chunking queue.
ChunkRaise_Requeue(w) ==
    /\ At(w, "chunker", "call")
    /\ InPool(w)
    /\ pool_queue' = Without(pool_queue, w)
    /\ chunk_raised' = chunk_raised \cup {task[w].item[1].document_id}
    /\ q_chunker' = Append(q_chunker, task[w].item[1])
    /\ task' = [task EXCEPT ![w] = Looping(@)]
    /\ UNCHANGED <<config, elsewhere, q_embeddings, q_storage, unfinished_tasks, lifecycle, caller,
                   chunk_calls, embed_hist, store_hist>>

\* The pool call raises: `except Exception: pass`, then task_done.
ChunkRaise(w) ==
    /\ At(w, "chunker", "call")
    /\ InPool(w)
    /\ pool_queue' = Without(pool_queue, w)
    /\ chunk_raised' = chunk_raised \cup {task[w].item[1].document_id}
    /\ task' = [task EXCEPT ![w] = Looping(@)]
    /\ unfinished_tasks' = TaskDone(unfinished_tasks, "chunker")
    /\ UNCHANGED <<config, elsewhere, q_chunker, q_embeddings, q_storage, lifecycle, caller,
                   chunk_calls, embed_hist, store_hist>>

\* A put suspended on the full embedding queue is woken by a free slot.
ChunkerPut(w) ==
    /\ At(w, "chunker", "put")
    /\ Len(q_embeddings) < maxsize_embeddings
    /\ PutChunks(w, task[w].pending)
    /\ UNCHANGED <<config, elsewhere, q_chunker, q_storage, lifecycle, pool_queue, caller,
                   chunk_hist, embed_hist, store_hist>>

\* _embedding_worker: get a chunk and call the embedding client.
EmbedGet(w) ==
    /\ At(w, "embedding", "loop")
    /\ ~stop_event
    /\ q_embeddings # <<>>
    /\ q_embeddings' = Tail(q_embeddings)
    /\ task' = [task EXCEPT ![w] = [@ EXCEPT !.pc = "call", !.item = <<Head(q_embeddings)>>]]
    /\ embed_calls' = [embed_calls EXCEPT ![Head(q_embeddings)] = @ + 1]
    /\ UNCHANGED <<config, elsewhere, q_chunker, q_storage, unfinished_tasks, lifecycle, pool_queue,
                   caller, chunk_hist, embed_raised, store_hist>>

\* PutVector with put_nowait and the QueueFull error swallowed by `except Exception`:
\* a vector chunk that finds the queue full is dropped.
PutVector_DropWhenFull(w, vector_chunk) ==
    /\ q_storage' = IF Len(q_storage) < q_storage_maxsize
                    THEN Append(q_storage, vector_chunk) ELSE q_storage
    /\ task' = [task EXCEPT ![w] = Looping(@)]
    /\ unfinished_tasks' =
          TaskDone([unfinished_tasks EXCEPT !.storage = @ + (Len(q_storage') - Len(q_storage))],
                   "embeddings")

\* `await self._q_storage.put(vector_chunk)`, then task_done and the loop head.
PutVector(w, vector_chunk) ==
    IF Len(q_storage) < q_storage_maxsize
    THEN /\ q_storage' = Append(q_storage, vector_chunk)
         /\ task' = [task EXCEPT ![w] = Looping(@)]
         /\ unfinished_tasks' =
               TaskDone([unfinished_tasks EXCEPT !.storage = @ + 1], "embeddings")
    ELSE /\ task' = [task EXCEPT ![w] = [@ EXCEPT !.pc = "put", !.pending = <<vector_chunk>>]]
         /\ UNCHANGED <<q_storage, unfinished_tasks>>

\* EmbedReturn with the returned vector kept in a field the embedding workers
\* share: the vector put with the chunk is the one of a call another worker still
\* has under way, when there is one.
EmbedReturn_SharedVector(w) ==
    LET others == {v \in DOMAIN task : v # w /\ task[v].kind = "embedding"
                                        /\ task[v].pc = "call"}
        source == IF others = {} THEN w ELSE CHOOSE v \in others : TRUE
    IN  /\ At(w, "embedding", "call")
        /\ PutVector(w, VectorDocumentNodeChunk(task[w].item[1],
                                                encode_document_async(task[source].item[1])))
        /\ UNCHANGED <<config, elsewhere, q_chunker, q_embeddings, lifecycle, pool_queue, caller,
                       chunk_hist, embed_hist, store_hist>>

\* The embedding call returns a vector.
EmbedReturn(w) ==
    /\ At(w, "embedding", "call")
    /\ PutVector(w, VectorDocumentNodeChunk(task[w].item[1],
                                            encode_document_async(task[w].item[1])))
    /\ UNCHANGED <<config, elsewhere, q_chunker, q_embeddings, lifecycle, pool_queue, caller,
                   chunk_hist, embed_hist, store_hist>>

\* EmbedRaise without the except clause: the exception ends the worker task.
EmbedRaise_Propagates(w) ==
    /\ At(w, "embedding", "call")
    /\ embed_raised' = embed_raised \cup {task[w].item[1]}
    /\ task' = [task EXCEPT ![w] = [@ EXCEPT !.pc = "failed", !.item = <<>>]]
    /\ unfinished_tasks' = TaskDone(unfinished_tasks, "embeddings")
    /\ UNCHANGED <<config, elsewhere, q_chunker, q_embeddings, q_storage, lifecycle, pool_queue,
                   caller, chunk_hist, embed_calls, store_hist>>

\* The embedding call raises: `except Exception: pass`, then task_done.
EmbedRaise(w) ==
    /\ At(w, "embedding", "call")
    /\ embed_raised' = embed_raised \cup {task[w].item[1]}
    /\ task' = [task EXCEPT ![w] = Looping(@)]
    /\ unfinished_tasks' = TaskDone(unfinished_tasks, "embeddings")
    /\ UNCHANGED <<config, elsewhere, q_chunker, q_embeddings, q_storage, lifecycle, pool_queue,
                   caller, chunk_hist, embed_calls, store_hist>>

\* A put suspended on the full storage queue is woken by a free slot.
EmbedPut(w) ==
    /\ At(w, "embedding", "put")
    /\ Len(q_storage) < q_storage_maxsize
    /\ PutVector(w, task[w].pending[1])
    /\ UNCHANGED <<config, elsewhere, q_chunker, q_embeddings, lifecycle, pool_queue, caller,
                   chunk_hist, embed_hist, store_hist>>

\* StoreGet on a queue that hands out its newest item first (a LifoQueue).
StoreGet_Lifo(w) ==
    /\ At(w, "storage", "loop")
    /\ ~stop_event
    /\ q_storage # <<>>
    /\ q_storage' = SubSeq(q_storage, 1, Len(q_storage) - 1)
    /\ task' = [task EXCEPT ![w] = [@ EXCEPT !.pc = "call",
                                             !.item = <<q_storage[Len(q_storage)]>>]]
    /\ store_calls' = Append(store_calls, q_storage[Len(q_storage)])
    /\ UNCHANGED <<config, elsewhere, q_chunker, q_embeddings, unfinished_tasks, lifecycle, pool_queue,
                   caller, chunk_hist, embed_hist, store_raised, stored>>

\* _storage_worker: get a vector chunk and call the storage sink.
StoreGet(w) ==
    /\ At(w, "storage", "loop")
    /\ ~stop_event
    /\ q_storage # <<>>
    /\ q_storage' = Tail(q_storage)
    /\ task' = [task EXCEPT ![w] = [@ EXCEPT !.pc = "call", !.item = <<Head(q_storage)>>]]
    /\ store_calls' = Append(store_calls, Head(q_storage))
    /\ UNCHANGED <<config, elsewhere, q_chunker, q_embeddings, unfinished_tasks, lifecycle, pool_queue,
                   caller, chunk_hist, embed_hist, store_raised, stored>>

\* The storage call returns: the write is acknowledged.
StoreReturn(w) ==
    /\ At(w, "storage", "call")
    /\ stored' = Append(stored, task[w].item[1])
    /\ task' = [task EXCEPT ![w] = Looping(@)]
    /\ unfinished_tasks' = TaskDone(unfinished_tasks, "storage")
    /\ UNCHANGED <<config, elsewhere, q_chunker, q_embeddings, q_storage, lifecycle, pool_queue,
                   caller, chunk_hist, embed_hist, store_calls, store_raised>>

\* StoreRaise with a retry: the vector chunk is handed to the sink once more.
StoreRaise_Retry(w) ==
    /\ At(w, "storage", "call")
    /\ store_raised' = store_raised \cup {task[w].item[1]}
    /\ store_calls' = Append(store_calls, task[w].item[1])
    /\ UNCHANGED <<config, elsewhere, queues, lifecycle, task, pool_queue,
                   caller, chunk_hist, embed_hist, stored>>

\* StoreRaise without the except clause: the exception ends the storage task.
StoreRaise_Propagates(w) ==
    /\ At(w, "storage", "call")
    /\ store_raised' = store_raised \cup {task[w].item[1]}
    /\ task' = [task EXCEPT ![w] = [@ EXCEPT !.pc = "failed", !.item = <<>>]]
    /\ unfinished_tasks' = TaskDone(unfinished_tasks, "storage")
    /\ UNCHANGED <<config, elsewhere, q_chunker, q_embeddings, q_storage, lifecycle, pool_queue,
                   caller, chunk_hist, embed_hist, store_calls, stored>>

\* The storage call raises: `except Exception: pass`, then task_done.
StoreRaise(w) ==
    /\ At(w, "storage", "call")
    /\ store_raised' = store_raised \cup {task[w].item[1]}
    /\ task' = [task EXCEPT ![w] = Looping(@)]
    /\ unfinished_tasks' = TaskDone(unfinished_tasks, "storage")
    /\ UNCHANGED <<config, elsewhere, q_chunker, q_embeddings, q_storage, lifecycle, pool_queue,
                   caller, chunk_hist, embed_hist, store_calls, stored>>

\* The get of the storage worker raises an exception that is no TimeoutError (a
\* storage queue that is not an asyncio.Queue): nothing in the coroutine catches it
\* and the task ends with it.
StorageGetRaises(w) ==
    /\ At(w, "storage", "loop")
    /\ ~stop_event
    /\ task' = [task EXCEPT ![w] = [@ EXCEPT !.pc = "failed"]]
    /\ UNCHANGED <<config, elsewhere, queues, lifecycle, pool_queue, caller,
                   chunk_hist, embed_hist, store_hist>>

\* --------------------------------------------------------- specifications

\* A collaborator call may still raise (the run's bound is not used up).
MayRaise ==
    Cardinality(chunk_raised) + Cardinality(embed_raised) + Cardinality(store_raised)
        < MaxFailures

MaxTasks == MaxStarts * (MaxChunkerWorkers + MaxEmbeddingWorkers + 1)

Workers == 1..MaxTasks

\* stop_async called by a caller that serializes its lifecycle calls (no stop_async
\* while another one is suspended in gather).
StopSerialized == stop_calls = <<>> /\ StopBegin

\* The steps of the workers when every collaborator call returns.
WorkerStep ==
    \E w \in Workers :
        \/ ChunkerGet(w) \/ ChunkReturn(w) \/ ChunkerPut(w)
        \/ EmbedGet(w) \/ EmbedReturn(w) \/ EmbedPut(w)
        \/ StoreGet(w) \/ StoreReturn(w)

\* A collaborator call raises.
WorkerRaise ==
    \E w \in Workers : MayRaise /\ (ChunkRaise(w) \/ EmbedRaise(w) \/ StoreRaise(w))

\* A task ends: by the stop event, or by the cancellation stop_async asked for.
WorkerEnd == \E w \in Workers : WorkerExit(w) \/ WorkerCancelled(w)

Ingest == \E shape \in Shapes : IngestBegin(shape)

\* The caller has a single document to hand over.
IngestOne == \E shape \in {<<>>, <<TRUE>>} : next_doc = 1 /\ IngestBegin(shape)

\* The caller hands over documents only.
IngestDocuments == \E shape \in Shapes : Valid(shape) = Len(shape) /\ IngestBegin(shape)

Next ==
    \/ StartAlready
    \/ StartSpawn
    \/ StopSerialized
    \/ \E k \in DOMAIN stop_calls : StopEnd(k)
    \/ Ingest
    \/ IngestResume
    \/ WorkerStep
    \/ WorkerEnd
    \/ WorkerRaise

\* The pipeline built with one worker per stage.
InitOneWorker ==
    Init /\ chunker_workers = 1 /\ embedding_workers = 1 /\ pool_workers = 1

\* Every operation of the pipeline, every outcome of the collaborators, one worker
\* per stage.
Spec == InitOneWorker /\ [][Next]_vars

\* Every configuration of the pools; the pipeline is started and fed, never stopped.
NextRun ==
    \/ StartAlready
    \/ StartSpawn
    \/ Ingest
    \/ IngestResume
    \/ WorkerStep
    \/ WorkerRaise

RunSpec == Init /\ [][NextRun]_vars

\* Every configuration of the pools; start, stop and restart around a caller that
\* has one document to hand over (its put never finds the queue full), with
\* collaborators that do not raise.
NextLifecycle ==
    \/ StartAlready
    \/ StartSpawn
    \/ StopSerialized
    \/ \E k \in DOMAIN stop_calls : StopEnd(k)
    \/ IngestOne
    \/ WorkerStep
    \/ WorkerEnd

LifecycleSpec == Init /\ [][NextLifecycle]_vars

\* The event loop runs every ready task: a worker whose awaited call has returned,
\* whose queue has an item or whose target queue has a free slot goes on, and so
\* does a caller suspended in ingest_batch_async.
Fairness ==
    /\ \A w \in Workers :
          /\ WF_vars(ChunkerGet(w) \/ ChunkReturn(w) \/ ChunkerPut(w))
          /\ WF_vars(EmbedGet(w) \/ EmbedReturn(w) \/ EmbedPut(w))
          /\ WF_vars(StoreGet(w) \/ StoreReturn(w))
    /\ WF_vars(IngestResume)

\* Every configuration; no stop_async, every collaborator call returns.
NextLive ==
    \/ StartSpawn
    \/ IngestDocuments
    \/ IngestResume
    \/ WorkerStep

LiveSpec == Init /\ [][NextLive]_vars /\ Fairness

\* Every configuration; no stop_async; the embedding call may raise, the other
\* collaborator calls return.
NextEmbedFault ==
    \/ NextLive
    \/ \E w \in Workers : MayRaise /\ EmbedRaise(w)

EmbedFaultSpec == Init /\ [][NextEmbedFault]_vars /\ Fairness

\* The steps of the workers when no call of the storage sink ever completes.
BlockedWorkerStep ==
    \E w \in Workers :
        \/ ChunkerGet(w) \/ ChunkReturn(w) \/ ChunkerPut(w)
        \/ EmbedGet(w) \/ EmbedReturn(w) \/ EmbedPut(w)
        \/ StoreGet(w)

\* Every configuration; a storage sink whose call never completes and a caller that
\* keeps calling ingest_batch_async once the pipeline is started.
NextBlocked ==
    \/ StartSpawn
    \/ IngestAgain
    \/ IngestResume
    \/ BlockedWorkerStep

BlockedStorageSpec ==
    Init /\ [][NextBlocked]_vars /\ Fairness /\ WF_vars(StartSpawn) /\ WF_vars(IngestAgain)

\* Every configuration; start, stop and restart around a caller that hands over
\* documents; a collaborator call returns or stays pending for ever; the storage
\* worker may end with an exception of its queue.
NextStop ==
    \/ StartSpawn
    \/ StopSerialized
    \/ \E k \in DOMAIN stop_calls : StopEnd(k)
    \/ IngestDocuments
    \/ IngestResume
    \/ WorkerStep
    \/ WorkerEnd
    \/ \E w \in Workers : StorageGetRaises(w)

\* The event loop runs a task that a cancellation or the stop event has made ready,
\* and the stop_async call whose gather is done.  No collaborator call is bound to
\* return.
StopFairness ==
    /\ \A w \in Workers : WF_vars(WorkerExit(w) \/ WorkerCancelled(w))
    /\ WF_vars(\E k \in DOMAIN stop_calls : StopEnd(k))

StopSpec == Init /\ [][NextStop]_vars /\ StopFairness

\* The pipeline built with a storage queue that holds one vector chunk more.
InitWideStorage == Construct(maxsize_storage + 1)

\* Every configuration of the pools and a storage queue of two places or more; the
\* pipeline is started and fed, never stopped; collaborator calls return or raise.
WideStorageSpec == InitWideStorage /\ [][NextRun]_vars

\* Every configuration; start, stop and restart around a caller that has one
\* document to hand over; the embedding and the storage call return or raise.
NextDrain ==
    \/ StartSpawn
    \/ StopSerialized
    \/ \E k \in DOMAIN stop_calls : StopEnd(k)
    \/ IngestOne
    \/ WorkerStep
    \/ WorkerEnd
    \/ \E w \in Workers : MayRaise /\ (EmbedRaise(w) \/ StoreRaise(w))

\* The event loop runs every ready task: a worker goes on when its call is over,
\* its queue has an item or its target queue a free place; a cancelled task and a
\* stop_async whose gather is done go on too.
DrainFairness ==
    /\ \A w \in Workers :
          /\ WF_vars(ChunkerGet(w) \/ ChunkReturn(w) \/ ChunkerPut(w))
          /\ WF_vars(EmbedGet(w) \/ EmbedReturn(w) \/ EmbedPut(w))
          /\ WF_vars(StoreGet(w) \/ StoreReturn(w))
    /\ StopFairness

DrainSpec == Init /\ [][NextDrain]_vars /\ DrainFairness

\* Every configuration; start, stop and restart around a caller that has one
\* document to hand over; every collaborator call returns.
NextRestart ==
    \/ StartSpawn
    \/ StopSerialized
    \/ \E k \in DOMAIN stop_calls : StopEnd(k)
    \/ IngestOne
    \/ WorkerStep
    \/ WorkerEnd

RestartSpec == Init /\ [][NextRestart]_vars /\ DrainFairness

\* stop_async called from any coroutine, also while another stop_async is suspended
\* in gather.
StopConcurrent == Len(stop_calls) < MaxStopCalls /\ StopBegin

\* Every configuration; start_async and stop_async called from several coroutines
\* in any interleaving the event loop allows, around a caller that has one document
\* to hand over; every collaborator call returns.
NextConcurrent ==
    \/ StartAlready
    \/ StartSpawn
    \/ StopConcurrent
    \/ \E k \in DOMAIN stop_calls : StopEnd(k)
    \/ IngestOne
    \/ WorkerStep
    \/ WorkerEnd

ConcurrentSpec == Init /\ [][NextConcurrent]_vars

\* One worker per stage; start, stop and restart around a caller that hands over
\* documents only; every collaborator call returns.
NextCaller ==
    \/ StartSpawn
    \/ StopSerialized
    \/ \E k \in DOMAIN stop_calls : StopEnd(k)
    \/ IngestDocuments
    \/ IngestResume
    \/ WorkerStep
    \/ WorkerEnd

\* The event loop runs every ready task, the caller suspended in a put included.
CallerSpec ==
    InitOneWorker /\ [][NextCaller]_vars /\ DrainFairness /\ WF_vars(IngestResume)

\* ------------------------------------------- DocumentIngestionPipeline (sync)

\* URI 0 names no file; URIs 1..NFiles name the files.
Uris == 0..NFiles

\* reader.read_file(file_uri) for a file that exists: the document of the file,
\* with file_uri - 1 nodes.
read_file(file_uri) ==
    [type |-> "OrthantDocument", document_id |-> file_uri,
     nodes |-> [j \in 1..(file_uri - 1) |-> OrthantDocumentNode(file_uri, j)]]

\* texts = [chunk.content for chunk in chunks]
Contents(chunks) == [i \in DOMAIN chunks |-> chunks[i].content]

\* embedder.encode_batch of an embedding model: one embedding per text.
encode_batch(texts) == [i \in DOMAIN texts |-> <<Len(texts[i])>>]

\* embedder.encode_batch of the test's mock: the same two embeddings whatever
\* the texts (in tenths).
mock_encode_batch == <<(<<1, 2, 3>>), (<<4, 5, 6>>)>>

\* What an embedder may return for texts.
EmbedderReturns(texts) == {encode_batch(texts), mock_encode_batch}

EmbeddedDocumentChunk(chunk, embedding, modality, created_at) ==
    [source_uri |-> chunk.document_id,
     node_path |-> chunk.node_path,
     node_chunk_index |-> chunk.node_chunk_index,
     content |-> chunk.content,
     embedding |-> embedding,
     modality |-> modality,
     created_at |-> created_at]

\* _create_embedded_chunks pairing every chunk with the embedding of the chunk
\* at the mirrored position.
create_embedded_chunks_mirrored(chunks, embeddings, created_at) ==
    LET n == Min(Len(chunks), Len(embeddings))
    IN  [i \in 1..n |->
            EmbeddedDocumentChunk(chunks[i], embeddings[n + 1 - i], "text", created_at)]

\* _create_embedded_chunks: zip(chunks, embeddings) stops at the shorter list.
create_embedded_chunks(chunks, embeddings, created_at) ==
    [i \in 1..Min(Len(chunks), Len(embeddings)) |->
        EmbeddedDocumentChunk(chunks[i], embeddings[i], "text", created_at)]

\* An exception leaves ingest / ingest_batch: nothing is caught on the way.
CoreRaised(c) == [c EXCEPT !.pc = "idle", !.result = "raised"]

\* The caller calls ingest(file_uri).
CoreIngest(file_uri) ==
    /\ core.pc = "idle" /\ core.entry = "none"
    /\ core' = [core EXCEPT !.pc = "read", !.entry = "ingest",
                            !.file_uris = <<file_uri>>, !.k = 1]
    /\ UNCHANGED <<vector_pipeline, registry>>

\* The caller calls ingest_batch(file_uris): all_chunks = [] and the loop begins;
\* an empty list returns [] at once.
CoreIngestBatch(file_uris) ==
    /\ core.pc = "idle" /\ core.entry = "none"
    /\ core' = IF file_uris = <<>>
               THEN [core EXCEPT !.entry = "ingest_batch", !.result = "returned",
                                 !.value = <<>>]
               ELSE [core EXCEPT !.pc = "read", !.entry = "ingest_batch",
                                 !.file_uris = file_uris, !.k = 1]
    /\ UNCHANGED <<vector_pipeline, registry>>

\* ingest_batch reading every URI and leaving out the ones that raise.
CoreReadFile_SkipMissing ==
    /\ core.pc = "read"
    /\ LET uri == core.file_uris[core.k]
           c == [core EXCEPT !.calls = Append(@, "read_file"),
                             !.read_args = Append(@, uri)]
       IN  core' = IF uri # 0
                   THEN [c EXCEPT !.document = read_file(uri), !.pc = "chunk"]
                   ELSE IF core.k = Len(core.file_uris)
                        THEN [c EXCEPT !.pc = "idle", !.result = "returned",
                                       !.value = core.all_chunks]
                        ELSE [c EXCEPT !.k = @ + 1]
    /\ UNCHANGED <<vector_pipeline, registry>>

\* document = self._reader.read_file(file_uri): FileNotFoundError for a URI that
\* names no file.
CoreReadFile ==
    /\ core.pc = "read"
    /\ LET uri == core.file_uris[core.k]
           c == [core EXCEPT !.calls = Append(@, "read_file"),
                             !.read_args = Append(@, uri)]
       IN  core' = IF uri = 0
                   THEN CoreRaised(c)
                   ELSE [c EXCEPT !.document = read_file(uri), !.pc = "chunk"]
    /\ UNCHANGED <<vector_pipeline, registry>>

\* chunks = self._chunker.chunk_document(document)
CoreChunkDocument ==
    /\ core.pc = "chunk"
    /\ core' = [core EXCEPT !.calls = Append(@, "chunk_document"),
                            !.chunk_args = Append(@, core.document),
                            !.chunks = chunk_document(core.document),
                            !.pc = "encode"]
    /\ UNCHANGED <<vector_pipeline, registry>>

\* texts = ...; embeddings = self._embedder.encode_batch(texts); created_at = now;
\* embedded_chunks = self._create_embedded_chunks(chunks, embeddings, created_at)
CoreEncodeBatch ==
    /\ core.pc = "encode"
    /\ \E embeddings \in EmbedderReturns(Contents(core.chunks)) :
          core' = [core EXCEPT !.calls = Append(@, "encode_batch"),
                               !.encode_args = Append(@, Contents(core.chunks)),
                               !.embeddings = embeddings,
                               !.embedded_chunks =
                                   create_embedded_chunks(core.chunks, embeddings, core.now),
                               !.now = @ + 1,
                               !.pc = "store"]
    /\ UNCHANGED <<vector_pipeline, registry>>

\* self._vector_store.store_chunks(embedded_chunks); return embedded_chunks.  In
\* ingest_batch: all_chunks.extend(chunks), then the next URI or return all_chunks.
CoreStoreChunks ==
    /\ core.pc = "store"
    /\ LET c == [core EXCEPT !.calls = Append(@, "store_chunks"),
                             !.store_args = Append(@, core.embedded_chunks)]
           all == core.all_chunks \o core.embedded_chunks
       IN  core' = IF core.entry = "ingest"
                   THEN [c EXCEPT !.pc = "idle", !.result = "returned",
                                  !.value = core.embedded_chunks]
                   ELSE IF core.k = Len(core.file_uris)
                        THEN [c EXCEPT !.pc = "idle", !.result = "returned",
                                       !.all_chunks = all, !.value = all]
                        ELSE [c EXCEPT !.pc = "read", !.all_chunks = all, !.k = @ + 1]
    /\ UNCHANGED <<vector_pipeline, registry>>

\* The chunker, the embedder or the vector store raises: the call was made, and
\* the exception leaves ingest and ingest_batch.
CoreCollaboratorRaises ==
    /\ core.pc \in {"chunk", "encode", "store"}
    /\ core' = CoreRaised(
         CASE core.pc = "chunk" ->
                [core EXCEPT !.calls = Append(@, "chunk_document"),
                             !.chunk_args = Append(@, core.document)]
           [] core.pc = "encode" ->
                [core EXCEPT !.calls = Append(@, "encode_batch"),
                             !.encode_args = Append(@, Contents(core.chunks))]
           [] core.pc = "store" ->
                [core EXCEPT !.calls = Append(@, "store_chunks")])
    /\ UNCHANGED <<vector_pipeline, registry>>

\* Every list of at most MaxUris URIs.
UriLists == UNION {[1..n -> Uris] : n \in 0..MaxUris}

NextCore ==
    \/ \E file_uri \in Uris : CoreIngest(file_uri)
    \/ \E file_uris \in UriLists : CoreIngestBatch(file_uris)
    \/ CoreReadFile
    \/ CoreChunkDocument
    \/ CoreEncodeBatch
    \/ CoreStoreChunks
    \/ CoreCollaboratorRaises

\* One call of ingest or of ingest_batch on a fresh DocumentIngestionPipeline.
CoreSpec == InitOneWorker /\ [][NextCore]_vars

\* ------------------------------------------------- InMemoryDatasetRegistry

\* DatasetSpec(dataset_id=..., storage_format=...)
DatasetSpec(dataset_id, storage_format) ==
    [dataset_id |-> dataset_id, storage_format |-> storage_format]

DatasetSpecs == {DatasetSpec(d, f) : d \in 1..NDatasets, f \in 1..NFormats}

\* None, where a DatasetSpec is expected.
None == [dataset_id |-> 0, storage_format |-> 0]

\* A dict is the sequence of its <<key, value>> items, in insertion order.
\* key in d
DictContains(d, key) == \E k \in DOMAIN d : d[k][1] = key

\* d.get(key, default)
DictGet(d, key, default) ==
    IF DictContains(d, key)
    THEN d[CHOOSE k \in DOMAIN d : d[k][1] = key][2]
    ELSE default

\* d[key] = value: a key already there keeps its position and takes the value.
DictSet(d, key, value) ==
    IF DictContains(d, key)
    THEN [k \in DOMAIN d |-> IF d[k][1] = key THEN <<key, value>> ELSE d[k]]
    ELSE Append(d, <<key, value>>)

\* list(d.values())
DictValues(d) == [k \in DOMAIN d |-> d[k][2]]

\* insert without the membership test.
insert_overwrite(dataset_spec) ==
    /\ Len(registry.inserted) < MaxInserts
    /\ registry' = [registry EXCEPT
                       !.inserted = Append(@, dataset_spec),
                       !.datasets = DictSet(@, dataset_spec.dataset_id, dataset_spec),
                       !.result = "returned"]
    /\ UNCHANGED <<vector_pipeline, core>>

\* InMemoryDatasetRegistry.insert
insert(dataset_spec) ==
    /\ Len(registry.inserted) < MaxInserts
    /\ registry' =
         IF DictContains(registry.datasets, dataset_spec.dataset_id)
         THEN [registry EXCEPT !.inserted = Append(@, dataset_spec),
                               !.result = "ValueError"]
         ELSE [registry EXCEPT
                   !.inserted = Append(@, dataset_spec),
                   !.datasets = DictSet(@, dataset_spec.dataset_id, dataset_spec),
                   !.result = "returned"]
    /\ UNCHANGED <<vector_pipeline, core>>

\* InMemoryDatasetRegistry.get_dataset
get_dataset(dataset_id) == DictGet(registry.datasets, dataset_id, None)

\* InMemoryDatasetRegistry.list_datasets
list_datasets == DictValues(registry.datasets)

NextRegistry == \E dataset_spec \in DatasetSpecs : insert(dataset_spec)

\* Any sequence of insert calls on a fresh registry.
RegistrySpec == InitOneWorker /\ [][NextRegistry]_vars

\* ----------------------------------------------------------------- claims

AcceptedIds == {accepted[k].document_id : k \in DOMAIN accepted}

StoreCallsFor(d) == Cardinality({k \in DOMAIN store_calls : store_calls[k].document_id = d})

StoredFor(d) == Cardinality({k \in DOMAIN stored : stored[k].document_id = d})

ChunkCallsFor(d) == Cardinality({k \in DOMAIN chunk_calls : chunk_calls[k] = d})

\* The vector chunk the pipeline builds from a chunk.
VectorOf(chunk) == VectorDocumentNodeChunk(chunk, encode_document_async(chunk))

\* The chunks of the documents accepted so far.
AcceptedChunks == UNION {Range(chunk_document(accepted[k])) : k \in DOMAIN accepted}

TasksAt(kind, pc) == {w \in DOMAIN task : task[w].kind = kind /\ task[w].pc = pc}

KindCount(kind) ==
    Cardinality({k \in DOMAIN worker_tasks : task[worker_tasks[k]].kind = kind})

\* C1 (LiveSpec: no stop_async, no collaborator raises, every pool configuration):
\* the storage sink is never called more than NodesPerDoc times for a document;
\* every accepted document leads to exactly NodesPerDoc storage calls for its id, all
\* of them returned; and in the end the number of storage calls is the number of
\* accepted documents times NodesPerDoc.
C1_EndToEndDelivery ==
    /\ \A d \in DocIds : [](StoreCallsFor(d) <= NodesPerDoc)
    /\ \A d \in DocIds :
          (d \in AcceptedIds) ~> (StoreCallsFor(d) = NodesPerDoc /\ StoredFor(d) = NodesPerDoc)
    /\ <>[](Len(store_calls) = Len(accepted) * NodesPerDoc)

\* All documents stored, with more chunker workers than pool processes.
C1_Witness ==
    /\ Len(accepted) = NDocs
    /\ Len(stored) = NDocs * NodesPerDoc
    /\ \A d \in DocIds : StoredFor(d) = NodesPerDoc
    /\ chunker_workers = MaxChunkerWorkers
    /\ embedding_workers = MaxEmbeddingWorkers
    /\ pool_workers = 1

\* C2: a step of start_async taken while tasks are tracked ends in AlreadyStarted,
\* creates no task and leaves the tracked list as it was.
C2_SecondStartFails ==
    [][(worker_tasks # <<>> /\ (start_result' # start_result \/ Len(task') # Len(task)))
          => (start_result' = "AlreadyStarted" /\ worker_tasks' = worker_tasks /\ task' = task)]_vars

\* A second start_async has failed, no stop_async in between, and the first
\* start's workers are all tracked, one of them busy.
C2_Witness ==
    /\ start_result = "AlreadyStarted"
    /\ ~stop_event
    /\ Len(worker_tasks) = WorkersPerStart
    /\ Len(task) = WorkersPerStart
    /\ \E w \in DOMAIN task : task[w].pc = "call"

\* The tracked list is empty or holds chunker_workers chunking tasks,
\* embedding_workers embedding tasks and one storage task, each once.
WorkerCountOk ==
    worker_tasks # <<>> =>
        /\ Len(worker_tasks) = chunker_workers + embedding_workers + 1
        /\ Cardinality(Range(worker_tasks)) = Len(worker_tasks)
        /\ KindCount("chunker") = chunker_workers
        /\ KindCount("embedding") = embedding_workers
        /\ KindCount("storage") = 1

\* C3: tracked tasks number chunker_workers + embedding_workers + 1 (c chunking,
\* e embedding, 1 storage), and a non-empty tracked list changes only while a
\* stop_async call is under way.
C3_WorkerCount ==
    /\ []WorkerCountOk
    /\ [][(worker_tasks # <<>> /\ worker_tasks' # worker_tasks) => stop_calls # <<>>]_vars

\* Two chunking and two embedding workers, five tasks tracked, no stop yet, one busy.
C3_Witness ==
    /\ chunker_workers = 2
    /\ embedding_workers = 2
    /\ Len(worker_tasks) = 5
    /\ ~stop_event
    /\ \E w \in DOMAIN task : task[w].pc = "call"

\* C4: a call of ingest_batch_async made while no task is tracked ends in NotStarted
\* at once and puts nothing on the chunking queue, whatever its input sequence.
C4_NotStartedGuard ==
    [][(ingest.pc = "idle" /\ worker_tasks = <<>>
           /\ (ingest' # ingest \/ accepted' # accepted \/ q_chunker' # q_chunker))
          => (ingest'.result = "NotStarted" /\ ingest'.pc = "idle"
                 /\ accepted' = accepted /\ q_chunker' = q_chunker)]_vars

\* NotStarted after a stop has completed, on an input that holds a document.
C4_Witness ==
    /\ ingest.result = "NotStarted"
    /\ \E k \in DOMAIN ingest.batch : IsOrthantDocument(ingest.batch[k])
    /\ start_result = "started"
    /\ stop_result = "returned"
    /\ worker_tasks = <<>>

\* A step in which a stop_async call returns.
StopReturns ==
    /\ stop_result' = "returned"
    /\ \/ stop_result # "returned"
       \/ Len(stop_calls') < Len(stop_calls)
       \/ stop_event' # stop_event

\* C5: stop_async ends in no error; when a call returns the tracked list is empty;
\* and a further stop_async on the stopped pipeline changes nothing.
C5_StopIdempotent ==
    /\ [](stop_result \in {"none", "awaiting", "returned"})
    /\ [][StopReturns => worker_tasks' = <<>>]_vars
    /\ [][(stop_result = "returned" /\ worker_tasks = <<>> /\ stop_calls = <<>> /\ StopBegin)
             => UNCHANGED vars]_vars

\* A stop_async that cancelled running workers has returned: the state a second
\* stop_async is called in.
C5_Witness ==
    /\ stop_result = "returned"
    /\ stop_event
    /\ worker_tasks = <<>>
    /\ stop_calls = <<>>
    /\ Len(task) = WorkersPerStart
    /\ \A w \in DOMAIN task : task[w].pc = "cancelled"

C7_ProducerBackpressure ==
    /\ <>[](ingest.pc = "put")
    /\ [](ingest.result \in {"none", "returned", "suspended"})
    /\ [][(ingest.pc = "put" /\ ingest' # ingest)
             => /\ Len(q_chunker) < maxsize_chunking
                /\ SubSeq(q_chunker', 1, Len(q_chunker) + 1)
                      = Append(q_chunker, ingest.batch[ingest.i])]_vars
    /\ [][accepted' # accepted => Len(q_chunker) < maxsize_chunking]_vars

\* The saturated pipeline: the storage worker in its call, every queue full, every
\* embedding and chunking worker suspended in a put, the caller suspended.
C7_Witness ==
    /\ ingest.pc = "put"
    /\ Len(q_chunker) = maxsize_chunking
    /\ Len(q_embeddings) = maxsize_embeddings
    /\ Len(q_storage) = maxsize_storage
    /\ Cardinality(TasksAt("storage", "call")) = 1
    /\ Cardinality(TasksAt("embedding", "put")) = embedding_workers
    /\ Cardinality(TasksAt("chunker", "put")) = chunker_workers
    /\ chunker_workers = MaxChunkerWorkers
    /\ embedding_workers = MaxEmbeddingWorkers

\* C8: no queue ever holds more items than its capacity, and a producer suspended
\* in a put still holds what it has to put.
C8_BoundedQueues ==
    /\ Len(q_chunker) <= maxsize_chunking
    /\ Len(q_embeddings) <= maxsize_embeddings
    /\ Len(q_storage) <= maxsize_storage
    /\ \A w \in DOMAIN task : task[w].pc = "put" => task[w].pending # <<>>
    /\ ingest.pc = "put" => ingest.i \in DOMAIN ingest.batch

\* Two queues full with producers of both stages suspended on them.
C8_Witness ==
    /\ Len(q_embeddings) = maxsize_embeddings
    /\ Len(q_storage) = maxsize_storage
    /\ TasksAt("chunker", "put") # {}
    /\ TasksAt("embedding", "put") # {}

\* C9 (EmbedFaultSpec: the embedding call may raise, no stop_async): in the end
\* the stored vector chunks are exactly those of the accepted chunks whose
\* embedding did not raise; a chunk whose embedding raised is never handed to the
\* storage sink; no worker task ever ends; no call of the caller ends in an error
\* other than the usage error NotStarted.
C9_EmbeddingFailureIsolated ==
    /\ <>[](Range(stored) = {VectorOf(c) : c \in AcceptedChunks \ embed_raised})
    /\ [](\A c \in embed_raised : VectorOf(c) \notin Range(store_calls))
    /\ [](\A w \in DOMAIN task : ~Terminal(task[w]))
    /\ [](ingest.result \in {"none", "NotStarted", "returned", "suspended"})

\* One embedding worker: the embedding of the first chunk raised, and every other
\* chunk of the run was embedded after it and is stored.
C9_Witness ==
    /\ embedding_workers = 1
    /\ embed_raised = {chunk_document(OrthantDocument(1))[1]}
    /\ Len(stored) = NDocs * NodesPerDoc - 1

\* The items held by the workers of a kind.
Held(kind) == {task[w].item[1] : w \in {v \in DOMAIN task : task[v].kind = kind /\ task[v].item # <<>>}}

\* C10 (RunSpec): a document whose chunking raised was handed to the chunker once,
\* is on no queue and with no worker, and none of its chunks exists; a vector chunk
\* whose store call raised was handed to the sink once, is not stored, is on no
\* queue and with no worker; and no worker task has ended.
C10_FailedItemDropped ==
    /\ \A d \in chunk_raised :
          /\ ChunkCallsFor(d) = 1
          /\ OrthantDocument(d) \notin Range(q_chunker) \cup Held("chunker")
          /\ \A c \in Range(chunk_document(OrthantDocument(d))) :
                embed_calls[c] = 0 /\ c \notin Range(q_embeddings)
    /\ \A v \in store_raised :
          /\ Cardinality({k \in DOMAIN store_calls : store_calls[k] = v}) = 1
          /\ v \notin Range(stored) \cup Range(q_storage) \cup Held("storage")
    /\ \A w \in DOMAIN task : ~Terminal(task[w])

\* One chunking worker: the chunking of document 1 raised and document 2 was chunked
\* next; the first store call raised and the storage worker stored the next chunk.
C10_Witness ==
    /\ chunker_workers = 1
    /\ chunk_raised = {1}
    /\ chunk_calls = <<1, 2>>
    /\ Len(store_calls) = 2
    /\ store_calls[1] \in store_raised
    /\ stored = <<store_calls[2]>>

C12_StopPostcondition ==
    /\ [](stop_calls # <<>> => stop_calls[1] = worker_tasks)
    /\ [](\A id \in DOMAIN task : id \in Range(worker_tasks) \/ Terminal(task[id]))
    /\ [][(stop_calls # <<>> /\ stop_calls' = <<>>)
             => /\ stop_result' = "returned"
                /\ worker_tasks' = <<>>
                /\ \A id \in Range(stop_calls[1]) : Terminal(task'[id])]_vars

\* Two stops have returned: the first cancelled workers that had stored a chunk,
\* the second gathered tasks that had returned by themselves.
C12_Witness ==
    /\ stop_result = "returned"
    /\ worker_tasks = <<>>
    /\ Len(task) = 2 * WorkersPerStart
    /\ \A id \in DOMAIN task : Terminal(task[id])
    /\ \E id \in DOMAIN task : task[id].pc = "cancelled"
    /\ \E id \in DOMAIN task : task[id].pc = "done"
    /\ stored # <<>>

\* C13 (StopSpec): stop_async never ends in an error, and a stop_async call whose
\* gathered tasks include one that ended with an exception or with cancellation
\* returns normally and leaves the tracked list empty.
C13_StopCollectsOutcomes ==
    /\ [](stop_result \in {"none", "awaiting", "returned"})
    /\ [][(stop_calls # <<>> /\ stop_calls' = <<>>
              /\ \E id \in Range(stop_calls[1]) : task[id].pc \in {"failed", "cancelled"})
             => (stop_result' = "returned" /\ worker_tasks' = <<>>)]_vars

\* The stop has returned after the storage worker ended with the exception of its
\* queue and the other workers with cancellation.
C13_Witness ==
    /\ stop_result = "returned"
    /\ worker_tasks = <<>>
    /\ Len(task) = WorkersPerStart
    /\ \A id \in DOMAIN task :
          task[id].pc = IF task[id].kind = "storage" THEN "failed" ELSE "cancelled"

\* C18 (StopSpec: a collaborator call may stay pending for ever; the event loop
\* runs the tasks stop_async has cancelled): a stop_async call suspended in gather
\* returns in the end.
C18_StopTerminates ==
    (stop_result = "awaiting") ~> (stop_result = "returned" /\ stop_calls = <<>>)

\* The stop has returned and every task has ended, after cancelling a storage worker
\* in a call that had not completed, a chunking worker suspended in the put of
\* the second chunk of a document, and an embedding worker that held a chunk.
C18_Witness ==
    /\ stop_result = "returned"
    /\ worker_tasks = <<>>
    /\ \A id \in DOMAIN task : Terminal(task[id])
    /\ Len(store_calls) > Len(stored)
    /\ \E d \in DocIds :
          /\ ChunkCallsFor(d) = 1
          /\ embed_calls[chunk_document(OrthantDocument(d))[1]] = 1
          /\ embed_calls[chunk_document(OrthantDocument(d))[2]] = 0
          /\ chunk_document(OrthantDocument(d))[2] \notin Range(q_embeddings)
    /\ \E c \in AllChunks :
          /\ embed_calls[c] = 1
          /\ VectorOf(c) \notin Range(q_storage) \cup Range(store_calls)

\* C14 (LifecycleSpec): a start_async called after a stop_async has returned, with
\* no start in between, does not end in AlreadyStarted; it creates
\* chunker_workers + embedding_workers + 1 new tasks, of the three kinds, and
\* tracks exactly those.
C14_RestartLegal ==
    [][(stop_result = "returned" /\ worker_tasks = <<>> /\ stop_calls = <<>>
           /\ (start_result' # start_result \/ Len(task') # Len(task)))
          => /\ start_result' = "started"
             /\ Len(task') = Len(task) + WorkersPerStart
             /\ Range(worker_tasks') = (Len(task) + 1)..Len(task')
             /\ Len(worker_tasks') = WorkersPerStart
             /\ WorkerCountOk']_vars

\* A pipeline started, fed, stopped and started again: the tasks of the second
\* start are the tracked ones.
C14_Witness ==
    /\ start_result = "started"
    /\ stop_result = "returned"
    /\ Len(task) = 2 * WorkersPerStart
    /\ Range(worker_tasks) = (WorkersPerStart + 1)..(2 * WorkersPerStart)
    /\ \A id \in 1..WorkersPerStart : task[id].pc = "cancelled"
    /\ accepted # <<>>

\* C15 (LifecycleSpec): a stop_async called while no task is tracked (before the
\* first start_async, or after a stop_async has returned) does not raise and leaves
\* the state of the pipeline as it was: the stop event, the tracked list, the
\* tasks and the queues.
C15_StopOutsideRunningNoOp ==
    [][(worker_tasks = <<>> /\ stop_calls = <<>> /\ StopBegin)
          => /\ stop_result' = "returned"
             /\ UNCHANGED <<stop_event, worker_tasks, stop_calls, task, queues, pool_queue>>]_vars

\* C16 (StopSpec, every chunker_workers, embedding_workers and pool size): a
\* start_async creates one storage task; at most one storage task is alive, and at
\* most one is suspended in a call of the storage sink.
C16_SingleStorageWriter ==
    /\ Cardinality(TasksAt("storage", "call")) <= 1
    /\ Cardinality({w \in DOMAIN task : task[w].kind = "storage" /\ ~Terminal(task[w])}) <= 1
    /\ worker_tasks # <<>> => KindCount("storage") = 1
    /\ Len(store_calls) <= Len(stored) + 1 + Cardinality(TasksAt("storage", "cancelled"))

\* Two chunking and two embedding workers; the storage worker is in a call, a
\* vector chunk waits on the full storage queue and both embedding workers are
\* suspended in a put on it.
C16_Witness ==
    /\ chunker_workers = 2
    /\ embedding_workers = 2
    /\ Cardinality(TasksAt("storage", "call")) = 1
    /\ Len(q_storage) = maxsize_storage
    /\ Cardinality(TasksAt("embedding", "put")) = 2

\* The number of times x occurs in the sequence s.
Occurrences(s, x) == Cardinality({k \in DOMAIN s : s[k] = x})

\* C17 (Spec: start, ingest_batch, raising collaborators, stop and restart): every
\* vector chunk handed to the storage sink is the vector chunk of a chunk of a
\* document that was put on the chunking queue and chunked; a vector chunk is
\* handed to the sink no more often than its document was chunked, and a document
\* is chunked no more often than it was put on the queue; what the sink has
\* acknowledged was handed to it.
C17_AtMostOnce ==
    /\ \A k \in DOMAIN store_calls : \E c \in AcceptedChunks : store_calls[k] = VectorOf(c)
    /\ \A c \in AllChunks :
          /\ Occurrences(store_calls, VectorOf(c)) <= embed_calls[c]
          /\ embed_calls[c] <= ChunkCallsFor(c.document_id)
    /\ \A d \in DocIds : ChunkCallsFor(d) <= Occurrences(accepted, OrthantDocument(d))
    /\ \A k \in DOMAIN stored : Occurrences(stored, stored[k]) <= Occurrences(store_calls, stored[k])

\* A stop has returned after a run in which a store call raised, another vector
\* chunk was stored, and a chunk that had been handed to the embedding client was
\* lost: it reached neither the storage queue nor the sink, and its call did not
\* raise.
C17_Witness ==
    /\ stop_result = "returned"
    /\ worker_tasks = <<>>
    /\ store_raised # {}
    /\ stored # <<>>
    /\ \E c \in AllChunks :
          /\ embed_calls[c] = 1
          /\ c \notin embed_raised
          /\ VectorOf(c) \notin Range(q_storage) \cup Range(store_calls)

\* No collaborator has been called for anything.
NoCollaboratorCall ==
    /\ chunk_calls = <<>>
    /\ \A c \in AllChunks : embed_calls[c] = 0
    /\ store_calls = <<>>
    /\ pool_queue = <<>>

\* C19 (LifecycleSpec): as long as neither start_async nor stop_async has been
\* called, the pipeline is as its constructor left it, in CREATED: no collaborator
\* called, no task created or tracked, the three queues empty, the stop event
\* clear, and a call of ingest_batch_async ends in NotStarted.
C19_ConstructionInert ==
    (start_result = "none" /\ stop_result = "none") =>
        /\ NoCollaboratorCall
        /\ task = <<>>
        /\ worker_tasks = <<>>
        /\ q_chunker = <<>> /\ q_embeddings = <<>> /\ q_storage = <<>>
        /\ unfinished_tasks = [chunker |-> 0, embeddings |-> 0, storage |-> 0]
        /\ ~stop_event
        /\ ingest.result \in {"none", "NotStarted"}

\* The pipeline just built with two chunking and two embedding workers configured:
\* the only call so far, an ingest_batch_async on a document, ended in NotStarted.
C19_Witness ==
    /\ start_result = "none"
    /\ stop_result = "none"
    /\ ingest.result = "NotStarted"
    /\ ingest.batch = <<OrthantDocument(1)>>
    /\ chunker_workers = MaxChunkerWorkers
    /\ embedding_workers = MaxEmbeddingWorkers
    /\ task = <<>>

\* C20 (LifecycleSpec): the step of start_async that creates the tasks runs none of
\* them, touches no queue and calls no collaborator; and as long as no document
\* has been put on the chunking queue, through start, stop and restart, no
\* collaborator is called.
C20_StartOnlySpawns ==
    /\ [][Len(task') # Len(task)
             => /\ start_result' = "started"
                /\ \A id \in (Len(task) + 1)..Len(task') :
                      task'[id] = NewTask(task'[id].kind)
                /\ \A id \in DOMAIN task : task'[id] = task[id]
                /\ UNCHANGED <<queues, pool_queue, chunk_hist, embed_hist, store_hist>>]_vars
    /\ [](accepted = <<>> => NoCollaboratorCall)

\* Started and stopped with no document submitted: the workers were cancelled and
\* no collaborator was called.
C20_Witness ==
    /\ accepted = <<>>
    /\ ingest.result = "none"
    /\ start_result = "started"
    /\ stop_result = "returned"
    /\ Len(task) = WorkersPerStart
    /\ \A id \in DOMAIN task : task[id].pc = "cancelled"
    /\ NoCollaboratorCall

\* The vector chunks that left the embedding stage: waiting on the storage queue,
\* held by an embedding worker suspended in its put, or handed to the sink.
EmbeddedSoFar ==
    Range(q_storage) \cup Range(store_calls)
        \cup {task[w].pending[1] : w \in TasksAt("embedding", "put")}

\* C21 (RunSpec, one or two embedding workers): every vector chunk that left the
\* embedding stage carries the document_id, node_path, node_chunk_index and content
\* of a chunk that was handed to the embedding client and whose call did not
\* raise, and its vector is the embedding of that very chunk.
C21_VectorMatchesChunk ==
    \A v \in EmbeddedSoFar :
        \E c \in AllChunks :
            /\ embed_calls[c] >= 1
            /\ c \notin embed_raised
            /\ v.document_id = c.document_id
            /\ v.node_path = c.node_path
            /\ v.node_chunk_index = c.node_chunk_index
            /\ v.content = c.content
            /\ v.vector = encode_document_async(c)

\* Two embedding workers had calls under way together: the second chunk of the
\* first document reached the sink before its first chunk.
C21_Witness ==
    /\ embedding_workers = 2
    /\ Len(store_calls) >= 2
    /\ store_calls[1] = VectorOf(chunk_document(OrthantDocument(1))[2])
    /\ store_calls[2] = VectorOf(chunk_document(OrthantDocument(1))[1])

\* C22 (WideStorageSpec: a storage queue that holds several vector chunks): a vector
\* chunk is put at the tail of the storage queue; the storage worker starts a call
\* only when it has no call under way, and for the vector chunk at the head of the
\* queue, which it takes off; the chunking and the embedding workers take the head
\* of their queues likewise; and a worker holds one item in a call or a put and
\* none at the head of its loop.
C22_WorkerFifo ==
    /\ [][store_calls' # store_calls
             => /\ TasksAt("storage", "call") = {}
                /\ q_storage # <<>>
                /\ store_calls' = Append(store_calls, Head(q_storage))
                /\ q_storage' = Tail(q_storage)]_vars
    /\ [][(q_storage' # q_storage /\ store_calls' = store_calls)
             => /\ Len(q_storage') = Len(q_storage) + 1
                /\ SubSeq(q_storage', 1, Len(q_storage)) = q_storage]_vars
    /\ [][chunk_calls' # chunk_calls
             => /\ q_chunker # <<>>
                /\ chunk_calls' = Append(chunk_calls, Head(q_chunker).document_id)
                /\ q_chunker' = Tail(q_chunker)]_vars
    /\ [][embed_calls' # embed_calls
             => /\ q_embeddings # <<>>
                /\ embed_calls' = [embed_calls EXCEPT ![Head(q_embeddings)] = @ + 1]
                /\ q_embeddings' = Tail(q_embeddings)]_vars
    /\ [](\A w \in DOMAIN task :
             /\ task[w].pc \in {"call", "put"} => Len(task[w].item) = 1
             /\ task[w].pc \notin {"call", "put"} => task[w].item = <<>>)

\* Two vector chunks wait on the storage queue while the storage worker has the
\* call for an earlier one under way.
C22_Witness ==
    /\ Len(q_storage) = 2
    /\ q_storage[1] # q_storage[2]
    /\ Cardinality(TasksAt("storage", "call")) = 1
    /\ Len(store_calls) = 1

\* The last n elements of the sequence s.
Last(s, n) == SubSeq(s, Len(s) - n + 1, Len(s))

\* C23 (RunSpec, a chunking queue of one place): the documents of the latest
\* ingest_batch_async call that have been put are the first i - 1 of its input, put
\* in the order of the input; a put adds to the end of what was put before; and the
\* chunking queue holds the documents put last, in that order.
C23_SubmissionOrder ==
    /\ [](ingest.result \in {"suspended", "returned", "InvalidInput"} =>
            /\ ingest.i - 1 <= Len(accepted)
            /\ Last(accepted, ingest.i - 1) = SubSeq(ingest.batch, 1, ingest.i - 1))
    /\ [](ingest.result = "returned" => ingest.i = Len(ingest.batch) + 1)
    /\ [](Len(q_chunker) <= Len(accepted) /\ Last(accepted, Len(q_chunker)) = q_chunker)
    /\ [][Len(accepted') >= Len(accepted)
             /\ SubSeq(accepted', 1, Len(accepted)) = accepted]_vars

\* A call on two documents has returned: the queue of one place was full after the
\* first, so the caller was suspended between the two.
C23_Witness ==
    /\ ingest.result = "returned"
    /\ Len(ingest.batch) = 2
    /\ Len(ingest.batch) > maxsize_chunking
    /\ accepted = ingest.batch
    /\ ingest.batch[1] # ingest.batch[2]

\* The chunk has come to its end in the pipeline: its vector chunk is stored, or its
\* embedding call or the store call of its vector chunk raised.
Settled(c) ==
    \/ VectorOf(c) \in Range(stored)
    \/ c \in embed_raised
    \/ VectorOf(c) \in store_raised

\* C24 as stated (DrainSpec: fair scheduling, calls that return or raise, stop_async
\* among the operations): every chunk on the embedding queue is in the end stored,
\* or dropped because its embedding call or its store call raised.
C24_NoChunkStuck ==
    \A c \in AllChunks : (c \in Range(q_embeddings)) ~> Settled(c)

\* C24 amended (DrainSpec): every chunk on the embedding queue is in the end stored,
\* or dropped because its embedding call or its store call raised, unless
\* stop_async is called before that.
C24_NoChunkStuckUnlessStopped ==
    \A c \in AllChunks : (c \in Range(q_embeddings)) ~> (Settled(c) \/ stop_event)

\* A pipeline never stopped: the embedding call of one chunk of the document raised
\* and the other chunk is stored.
C24_Witness ==
    /\ ~stop_event
    /\ \E c \in AcceptedChunks : c \in embed_raised
    /\ \E c \in AcceptedChunks : VectorOf(c) \in Range(stored)
    /\ \A c \in AcceptedChunks : Settled(c)

\* C25 (RunSpec), the docstring of ingest_batch_async: when the call has returned,
\* every chunk of every document of its input has been handed to the storage sink.
C25_ReturnsAfterStored ==
    ingest.result = "returned" =>
        \A k \in DOMAIN ingest.batch :
            \A c \in Range(chunk_document(ingest.batch[k])) :
                VectorOf(c) \in Range(store_calls)

\* s is the beginning of t.
IsPrefix(s, t) == Len(s) <= Len(t) /\ s = SubSeq(t, 1, Len(s))

\* The collaborator calls of one ingest, in the order of the code.
IngestCallOrder == <<"read_file", "chunk_document", "encode_batch", "store_chunks">>

\* C26: the synchronous ingest(uri) calls read_file(uri), chunk_document (with the
\* document read), encode_batch (with the contents of the chunks, in chunk order)
\* and store_chunks (with the list it returns), each exactly once and in this
\* order.  When the embedder gave one embedding per chunk, the list returned has
\* one embedded chunk per chunk, the i-th with the i-th chunk's document_id,
\* node_path, node_chunk_index and content and with the i-th embedding.  A
\* document with no chunk goes the same way: encode_batch([]), store_chunks([]).
C26_SyncIngestContract ==
    core.entry = "ingest" =>
        LET uri == core.file_uris[1]
            chunks == chunk_document(read_file(uri))
        IN  /\ IsPrefix(core.calls, IngestCallOrder)
            /\ IsPrefix(core.read_args, <<uri>>)
            /\ IsPrefix(core.chunk_args, <<read_file(uri)>>)
            /\ IsPrefix(core.encode_args, <<Contents(chunks)>>)
            /\ Len(core.store_args) <= 1
            /\ core.result = "returned" =>
                 /\ core.calls = IngestCallOrder
                 /\ core.read_args = <<uri>>
                 /\ core.chunk_args = <<read_file(uri)>>
                 /\ core.encode_args = <<Contents(chunks)>>
                 /\ core.store_args = <<core.value>>
                 /\ Len(core.embeddings) = Len(chunks) =>
                      /\ Len(core.value) = Len(chunks)
                      /\ \A i \in DOMAIN chunks :
                            /\ core.value[i].source_uri = chunks[i].document_id
                            /\ core.value[i].node_path = chunks[i].node_path
                            /\ core.value[i].node_chunk_index = chunks[i].node_chunk_index
                            /\ core.value[i].content = chunks[i].content
                            /\ core.value[i].embedding = core.embeddings[i]

\* ingest returned the embedded chunks of a document of several chunks, the
\* embedder having given one embedding per chunk.
C26_Witness ==
    /\ core.entry = "ingest" /\ core.result = "returned"
    /\ Len(core.value) >= 2
    /\ Len(core.embeddings) = Len(core.chunks)
    /\ core.embeddings[1] # core.embeddings[2]

RECURSIVE Concat(_)
\* The lists of s, one after the other.
Concat(s) == IF s = <<>> THEN <<>> ELSE Head(s) \o Concat(Tail(s))

\* C27: the synchronous ingest_batch(file_uris) reads the URIs in list order and
\* calls store_chunks once per URI ingested, with the embedded chunks of that URI.
\* When the ingestion of URI i raises, ingest_batch raises, no URI after i is ever
\* read, and the store_chunks calls of the URIs before i stay as they were made.
C27_BatchStopsAtFirstError ==
    core.entry = "ingest_batch" =>
        LET uris == core.file_uris
            n == Len(core.read_args)
            ChunksOf(j) == chunk_document(read_file(uris[j]))
        IN  /\ IsPrefix(core.read_args, uris)
            /\ Len(core.store_args) \in {n - 1, n}
            /\ \A j \in DOMAIN core.store_args :
                  \E e \in EmbedderReturns(Contents(ChunksOf(j))) :
                     core.store_args[j] = create_embedded_chunks(ChunksOf(j), e, j - 1)
            /\ \A i \in 1..n : uris[i] = 0 => core.result = "raised" /\ n = i
            /\ core.result = "raised" => n >= 1 /\ Len(core.store_args) = n - 1
            /\ core.result = "returned" =>
                 /\ n = Len(uris)
                 /\ Len(core.store_args) = n
                 /\ core.value = Concat(core.store_args)

\* The second of three URIs raised after the chunks of the first were stored.
C27_Witness ==
    /\ core.entry = "ingest_batch" /\ core.result = "raised"
    /\ Len(core.file_uris) = 3
    /\ Len(core.read_args) = 2
    /\ Len(core.store_args) = 1
    /\ core.store_args[1] # <<>>

\* The specs of s whose dataset_id no earlier spec of s has, in the order of s.
FirstPerId(s) ==
    LET first == {k \in DOMAIN s : \A j \in 1..(k - 1) : s[j].dataset_id # s[k].dataset_id}
        Nth[n \in 0..Len(s)] ==
            IF n = 0 THEN 0
            ELSE CHOOSE k \in first : k > Nth[n - 1] /\ \A j \in first : j > Nth[n - 1] => k <= j
    IN  [n \in 1..Cardinality(first) |-> s[Nth[n]]]

\* C28: an insert of a spec whose dataset_id is already registered raises
\* ValueError and leaves the registry as it was; so, after any sequence of
\* inserts, get_dataset gives for every dataset_id the first spec inserted under
\* it (None when there is none) and list_datasets gives these first specs in the
\* order of their insertion.
C28_DuplicateInsertRejected ==
    /\ [][\A dataset_spec \in DatasetSpecs :
            (/\ registry'.inserted = Append(registry.inserted, dataset_spec)
             /\ get_dataset(dataset_spec.dataset_id) # None)
            => /\ registry'.result = "ValueError"
               /\ registry'.datasets = registry.datasets]_vars
    /\ [](/\ list_datasets = FirstPerId(registry.inserted)
          /\ \A d \in 1..NDatasets :
                get_dataset(d) =
                    IF \E k \in DOMAIN registry.inserted : registry.inserted[k].dataset_id = d
                    THEN LET k == CHOOSE k \in DOMAIN registry.inserted :
                                     /\ registry.inserted[k].dataset_id = d
                                     /\ \A j \in 1..(k - 1) : registry.inserted[j].dataset_id # d
                         IN  registry.inserted[k]
                    ELSE None)

\* With two datasets registered, a different spec was inserted under the id of the
\* first one and was refused.
C28_Witness ==
    /\ registry.result = "ValueError"
    /\ Len(list_datasets) = 2
    /\ LET last == registry.inserted[Len(registry.inserted)]
       IN  /\ last.dataset_id = list_datasets[1].dataset_id
           /\ last # list_datasets[1]

\* The workers of a kind that hold an item: dequeued and not yet marked done.
Holders(kind) == {w \in DOMAIN task : task[w].kind = kind /\ task[w].item # <<>>}

\* C29: on each of the three queues the count of unfinished items is the number of
\* items waiting in the queue plus the number of workers of its stage that hold an
\* item: every dequeued item is marked done exactly once, whether its processing
\* succeeded, raised and was swallowed, or was cut by a cancellation.
C29_DrainAccounting ==
    /\ unfinished_tasks.chunker = Len(q_chunker) + Cardinality(Holders("chunker"))
    /\ unfinished_tasks.embeddings = Len(q_embeddings) + Cardinality(Holders("embedding"))
    /\ unfinished_tasks.storage = Len(q_storage) + Cardinality(Holders("storage"))

\* A chunk was being embedded when its worker was cancelled (it was handed to the
\* embedder, did not raise, and no vector of it exists), another item was stored
\* and another raised; every task has ended.
C29_Witness ==
    /\ \A w \in DOMAIN task : Terminal(task[w])
    /\ \E w \in DOMAIN task : task[w].pc = "cancelled"
    /\ \E c \in AllChunks :
          /\ embed_calls[c] > 0
          /\ c \notin embed_raised
          /\ VectorOf(c) \notin Range(q_storage) \cup Range(store_calls)
    /\ stored # <<>>
    /\ chunk_raised \cup embed_raised \cup store_raised # {}

\* No worker holds item x.
Unheld(x) == \A w \in DOMAIN task : task[w].item # <<x>>

\* Chunk c of a document that a chunker took and no longer holds never reached the
\* embedding stage.
CutBeforeEmbedding(c) ==
    /\ c.document_id \in Range(chunk_calls)
    /\ \A w \in Holders("chunker") : task[w].item[1].document_id # c.document_id
    /\ c \notin Range(q_embeddings)
    /\ embed_calls[c] = 0

\* Chunk c was taken by an embedding worker that no longer holds it, its embedding
\* did not raise, and no vector chunk of it reached the storage stage.
CutInEmbedding(c) ==
    /\ embed_calls[c] > 0
    /\ Unheld(c)
    /\ c \notin embed_raised
    /\ VectorOf(c) \notin Range(q_storage) \cup Range(store_calls)

\* Vector chunk v was taken by the storage worker, which no longer holds it; its
\* store call neither returned nor raised.
CutInStorage(v) ==
    /\ v \in Range(store_calls)
    /\ Unheld(v)
    /\ v \notin Range(stored) \cup store_raised

\* The cancellation of worker w, which holds an item, is delivered in this step.
CancelledHolding(w) ==
    /\ task[w].item # <<>>
    /\ task[w].pc # "cancelled"
    /\ task'[w].pc = "cancelled"

\* C30: when stop cancels a worker that holds an item (a document being chunked or
\* with chunks waiting for room in the embedding queue, a chunk being embedded or
\* with its vector waiting for room in the storage queue, a vector chunk being
\* stored), the item and what the worker had not yet passed on are lost from that
\* step on: the item is on no queue and with no worker ever again, and nothing of
\* it reaches a later stage afterwards.
C30_LostAtCancellation ==
    /\ [][\A w \in DOMAIN task : CancelledHolding(w) =>
            \A x \in Range(task[w].item) :
                /\ q_chunker' = q_chunker
                /\ q_embeddings' = q_embeddings
                /\ q_storage' = q_storage
                /\ task[w].kind = "chunker" =>
                     \A c \in Range(chunk_document(x)) :
                        (c \notin Range(q_embeddings) /\ embed_calls[c] = 0)
                        => CutBeforeEmbedding(c)'
                /\ task[w].kind = "embedding" => CutInEmbedding(x)'
                /\ task[w].kind = "storage" => CutInStorage(x)']_vars
    /\ [][\A c \in AllChunks :
            /\ CutBeforeEmbedding(c) => CutBeforeEmbedding(c)'
            /\ CutInEmbedding(c) => CutInEmbedding(c)'
            /\ CutInStorage(VectorOf(c)) => CutInStorage(VectorOf(c))']_vars
    /\ [](\A c \in AllChunks :
            /\ CutBeforeEmbedding(c) =>
                  \A k \in DOMAIN q_chunker : q_chunker[k].document_id # c.document_id
            /\ CutInEmbedding(c) => c \notin Range(q_embeddings)
            /\ CutInStorage(VectorOf(c)) => VectorOf(c) \notin Range(q_storage))

\* One stop cut a document in the chunker, a chunk in the embedding worker and a
\* vector chunk in the storage worker.
C30_Witness ==
    /\ \A w \in DOMAIN task : Terminal(task[w])
    /\ \E c \in AllChunks : c.document_id \notin chunk_raised /\ CutBeforeEmbedding(c)
    /\ \E c \in AllChunks : CutInEmbedding(c)
    /\ \E c \in AllChunks : CutInStorage(VectorOf(c))

\* Task w runs coroutine `kind` and waits at `pc` with no stop under way.
Waiting(w, kind, pc) ==
    /\ task[w].kind = kind
    /\ task[w].pc = pc
    /\ ~task[w].must_cancel

Enqueued(c) == c \in Range(q_embeddings) \/ embed_calls[c] > 0

\* The chunks the chunking worker that holds document d has not put yet: the whole
\* result while the call runs, the rest of it while a put waits for room.
NotYetPut(d) ==
    LET w == CHOOSE w \in Holders("chunker") : task[w].item[1].document_id = d
    IN  IF task[w].pc = "put" THEN task[w].pending ELSE chunk_document(task[w].item[1])

\* Document d was taken by a chunking worker that has let go of it, and its
\* chunking call did not raise.
ChunkerLetGo(d) ==
    /\ d \in Range(chunk_calls)
    /\ d \notin chunk_raised
    /\ \A w \in Holders("chunker") : task[w].item[1].document_id # d

\* The chunks of document d put so far are a beginning of its chunk sequence S, put
\* in the order of S and each once; the others are the ones the worker that holds d
\* still has to put; none is put before d is taken or when its chunking call raised.
PutInOrder(d) ==
    LET S == chunk_document(OrthantDocument(d))
        held == \E w \in Holders("chunker") : task[w].item[1].document_id = d
    IN  /\ \A i \in DOMAIN S : Occurrences(q_embeddings, S[i]) + embed_calls[S[i]] <= 1
        /\ \A i, j \in DOMAIN S : (i < j /\ Enqueued(S[j])) =>
              /\ Enqueued(S[i])
              /\ embed_calls[S[j]] > 0 => embed_calls[S[i]] > 0
              /\ \A k, l \in DOMAIN q_embeddings :
                    (q_embeddings[k] = S[i] /\ q_embeddings[l] = S[j]) => k < l
        /\ (d \notin Range(chunk_calls) \/ d \in chunk_raised)
              => \A i \in DOMAIN S : ~Enqueued(S[i])
        /\ held =>
              /\ Len(NotYetPut(d)) <= Len(S)
              /\ NotYetPut(d) = SubSeq(S, Len(S) - Len(NotYetPut(d)) + 1, Len(S))
              /\ \A i \in DOMAIN S : Enqueued(S[i]) <=> i <= Len(S) - Len(NotYetPut(d))

\* C32 as stated: of a document whose chunking call returns the sequence S, the
\* chunking worker puts exactly the elements of S on the embedding queue, in the
\* order of S and each once - so a worker that has put the first chunk and has let
\* go of the document has put all of S; of a document whose chunking call raised,
\* no chunk is put.
C32_ChunkingOutput ==
    \A d \in DocIds :
        /\ PutInOrder(d)
        /\ (ChunkerLetGo(d) /\ Enqueued(chunk_document(OrthantDocument(d))[1]))
              => \A c \in Range(chunk_document(OrthantDocument(d))) : Enqueued(c)

\* C32, amended: the chunks a chunking worker puts of a document are a beginning of
\* the sequence S its chunking call returned, in the order of S and each once, and
\* all of S unless stop cancels the worker while a put waits for room; of a
\* document whose chunking call raised, no chunk is put.
C32_ChunkingOutputUnlessCancelled ==
    \A d \in DocIds :
        /\ PutInOrder(d)
        /\ (/\ ChunkerLetGo(d)
            /\ \A w \in DOMAIN task : task[w].kind = "chunker" => task[w].pc # "cancelled")
              => \A c \in Range(chunk_document(OrthantDocument(d))) : Enqueued(c)

\* The chunking of one document raised; the worker has put both chunks of the
\* other, the second after waiting for room, and no chunking worker was cancelled.
C32_Witness ==
    /\ chunk_raised # {}
    /\ \A w \in DOMAIN task : task[w].kind = "chunker" => task[w].pc # "cancelled"
    /\ \E d \in DocIds :
          /\ ChunkerLetGo(d)
          /\ chunk_document(OrthantDocument(d))[NodesPerDoc] \in Range(q_embeddings)
          /\ embed_calls[chunk_document(OrthantDocument(d))[1]] > 0

\* The tracked tasks are those of a start_async that followed a stop_async: no
\* stop_async is under way and tasks of an earlier start exist.
Restarted ==
    /\ worker_tasks # <<>>
    /\ stop_calls = <<>>
    /\ \E id \in DOMAIN task : id \notin Range(worker_tasks)

\* C33 (RestartSpec: no collaborator call raises, fair scheduling): after a
\* stop_async followed by a start_async the tracked workers stay alive, and a
\* document put on the chunking queue is then chunked, embedded and stored
\* completely, as after the first start_async.
C33_RestartedPipelineWorks ==
    /\ [](Restarted => \A k \in DOMAIN worker_tasks : ~Terminal(task[worker_tasks[k]]))
    /\ \A d \in DocIds :
          (Restarted /\ d \in AcceptedIds /\ chunk_calls = <<>>)
              ~> (~Restarted \/ StoredFor(d) = NodesPerDoc)

\* C34 (ConcurrentSpec): under every interleaving of start_async and stop_async
\* calls the tracked list holds at most chunker_workers + embedding_workers + 1
\* tasks, every task that has not ended is tracked, and a stop_async that clears
\* the list clears only tasks it has cancelled and gathered (they have ended).
C34_ConcurrentStartStop ==
    /\ [](Len(worker_tasks) <= WorkersPerStart)
    /\ [](\A id \in DOMAIN task : ~Terminal(task[id]) => id \in Range(worker_tasks))
    /\ [][(worker_tasks # <<>> /\ worker_tasks' = <<>>)
            => \A id \in Range(worker_tasks) : Terminal(task[id])]_vars

\* stop_async has been called and no start_async has spawned workers since: the
\* call is suspended in gather, or the tracked list is still empty after a stop.
StoppedSince == stop_event /\ (stop_calls # <<>> \/ worker_tasks = <<>>)

\* C35 (Spec: serialized start and stop, raising collaborators): from the call of
\* stop_async until the next start_async spawns workers, no chunking, embedding or
\* storage call is started, nothing is put on the embedding or the storage queue,
\* and the chunking queue grows only by a put of the caller of ingest_batch_async.
C35_QuiescentAfterStop ==
    [][StoppedSince =>
         /\ chunk_calls' = chunk_calls
         /\ embed_calls' = embed_calls
         /\ store_calls' = store_calls
         /\ q_embeddings' = q_embeddings
         /\ q_storage' = q_storage
         /\ q_chunker' # q_chunker =>
               /\ accepted' # accepted
               /\ \E n \in 1..MaxBatch :
                     /\ Len(q_chunker') = Len(q_chunker) + n
                     /\ q_chunker' = q_chunker \o Last(accepted', n)]_vars

\* stop_async is suspended in gather; a worker whose collaborator call is under
\* way has its cancellation pending, and items wait on a queue.
C35_Witness ==
    /\ StoppedSince
    /\ stop_calls # <<>>
    /\ \E w \in DOMAIN task : task[w].must_cancel /\ task[w].pc = "call"
    /\ q_chunker # <<>> \/ q_embeddings # <<>> \/ q_storage # <<>>

\* C36: when a call of ingest_batch_async has ended in InvalidInput at position i
\* of its input, the documents the call has put are exactly the ones at the
\* positions before i, in their order; each of them is still on the chunking queue
\* or was taken from it by a chunking worker; and no document at a later position
\* was ever put.
C36_InvalidInputNotAtomic ==
    ingest.result = "InvalidInput" =>
        LET i == ingest.i
            batch == ingest.batch
        IN  /\ i \in DOMAIN batch
            /\ Len(accepted) >= i - 1
            /\ Last(accepted, i - 1) = SubSeq(batch, 1, i - 1)
            /\ \A k \in 1..(i - 1) :
                  /\ Occurrences(accepted, batch[k]) = 1
                  /\ \/ batch[k] \in Range(q_chunker)
                     \/ batch[k].document_id \in Range(chunk_calls)
            /\ \A k \in i..Len(batch) :
                  /\ batch[k] \notin Range(accepted)
                  /\ batch[k] \notin Range(q_chunker)

\* InvalidInput at the second value of the input: the first, a document, was put
\* and still waits on the chunking queue.
C36_Witness ==
    /\ ingest.result = "InvalidInput"
    /\ ingest.i = 2
    /\ q_chunker = <<ingest.batch[1]>>
    /\ ingest.batch[1].document_id \notin Range(chunk_calls)

\* The items waiting on the three queues.
Waitlists == <<q_chunker, q_embeddings, q_storage>>

\* This step is one of stop_async (its call or its return) or of start_async.
LifecycleStep ==
    \/ stop_event' # stop_event
    \/ stop_calls' # stop_calls
    \/ stop_result' # stop_result
    \/ start_result' # start_result
    \/ worker_tasks' # worker_tasks

\* From the call of stop_async until the next start_async spawns workers no item
\* leaves a queue, and no step of stop_async or start_async changes a queue.
NoDrain ==
    /\ StoppedSince =>
          /\ IsPrefix(q_chunker, q_chunker')
          /\ q_embeddings' = q_embeddings
          /\ q_storage' = q_storage
    /\ LifecycleStep => Waitlists' = Waitlists

\* C37 as stated: the items waiting on the queues when stop_async is called stay
\* there as they are - stop_async neither processes nor removes them - and neither
\* start_async nor an ingest_batch_async call that fails changes what is on the
\* queues.
C37_StopDoesNotDrain ==
    [][/\ NoDrain
       /\ (ingest' # ingest /\ ingest'.result \in {"NotStarted", "InvalidInput"})
             => Waitlists' = Waitlists]_vars

\* C37, amended: as stated, for an ingest_batch_async call that fails with
\* NotStarted; a call that fails with InvalidInput leaves the waiting items in
\* place and has put the documents before the invalid value behind them.
C37_StopDoesNotDrainNorNotStarted ==
    [][/\ NoDrain
       /\ (ingest' # ingest /\ ingest'.result = "NotStarted") => Waitlists' = Waitlists
       /\ (ingest' # ingest /\ ingest'.result = "InvalidInput") =>
             /\ q_chunker' = q_chunker \o SubSeq(ingest'.batch, ingest.i, ingest'.i - 1)
                \/ q_chunker' = q_chunker \o SubSeq(ingest'.batch, 1, ingest'.i - 1)
             /\ q_embeddings' = q_embeddings
             /\ q_storage' = q_storage]_vars

\* stop_async has returned with items waiting on each of the three queues, and an
\* ingest_batch_async call made since has failed with NotStarted.
C37_Witness ==
    /\ stop_result = "returned"
    /\ worker_tasks = <<>>
    /\ q_chunker # <<>> /\ q_embeddings # <<>> /\ q_storage # <<>>
    /\ ingest.result = "NotStarted"

\* C38 (CallerSpec: collaborator calls return, fair scheduling): every call of
\* ingest_batch_async returns or raises in the end; a call that does not end in
\* its first run is suspended in a put on the full chunking queue, and it ends
\* later, also when stop_async is called meanwhile.
C38_IngestCompletes == (ingest.pc = "put") ~> (ingest.pc = "idle")

====
